---- MODULE Spec2Model ----
(***************************************************************************)
(* Model of the BIP340 Schnorr engine (schnorrBip340), the Taproot engine  *)
(* (taproot) and the p2ns payment template of bitcoinjs-lib.               *)
(*                                                                         *)
(* Buffers are sequences of bytes (0..255) and keep their real lengths     *)
(* (32-byte scalars, 64-byte signatures, 33-byte points).  The curve is    *)
(* y^2 = x^3 + 7 as in secp256k1, over a field small enough to enumerate:  *)
(* FIELD_P = 43, prime group order GROUP_N = 31, and digests of DigestBits *)
(* bits, so that GROUP_N < FIELD_P < 2^DigestBits holds as it does for     *)
(* secp256k1 and SHA256 (n < p < 2^256).                                   *)
(***************************************************************************)
EXTENDS Integers, Sequences, FiniteSets, TLC

VARIABLES call, ret

vars == <<call, ret>>

(***************************************************************************)
(* Bounds of the model                                                     *)
(***************************************************************************)
\* number of bits of a digest (256 for SHA256)
DigestBits == 6

\* largest message-hash / auxiliary value fed to the signer
MaxMsg == 2

\* longest list of scripts given to getHuffmanTaptree, and longest path of
\* sibling hashes given to getControlBlock besides the path of 128
MaxScripts == 3

\* largest script weight
MaxWeight == 2

\* longest list of keys given to aggregateMuSigPubkeys
MaxKeys == 3

\* longest witness stack given to removeAnnex
MaxStack == 3

(***************************************************************************)
(* Outcomes: a call either returns a value or throws an error message      *)
(***************************************************************************)
Ret(v) == [thrown |-> FALSE, val |-> v]

Throw(msg) == [thrown |-> TRUE, val |-> msg]

\* JavaScript's undefined: a value that is no buffer (no byte is negative)
Undefined == <<0 - 1>>

\* a value that may be missing (an optional argument or property, a result
\* that may be null): Absent, or Present(v)
Absent == [has |-> FALSE, v |-> <<>>]

Present(v) == [has |-> TRUE, v |-> v]

(***************************************************************************)
(* Buffers                                                                 *)
(***************************************************************************)
RECURSIVE Pow2(_)
Pow2(k) == IF k = 0 THEN 1 ELSE 2 * Pow2(k - 1)

\* Buffer.alloc(k, 0)
Zeros(k) == [i \in 1..k |-> 0]

ZERO32 == Zeros(32)

\* buf.slice(from, to), 0-based, end exclusive, clamped to the buffer
Slice(buf, from, to) ==
  LET hi == IF to > Len(buf) THEN Len(buf) ELSE to
  IN  IF from >= hi THEN <<>> ELSE [i \in 1..(hi - from) |-> buf[from + i]]

\* Buffer.concat of a list of buffers
RECURSIVE Concat(_)
Concat(list) ==
  IF Len(list) = 0 THEN <<>>
  ELSE IF Len(list) = 1 THEN list[1]
  ELSE Concat(SubSeq(list, 1, Len(list) \div 2))
       \o Concat(SubSeq(list, Len(list) \div 2 + 1, Len(list)))

\* Buffer.compare(a, b): -1, 0 or 1, lexicographic on bytes, then on length
Compare(a, b) ==
  LET m     == IF Len(a) < Len(b) THEN Len(a) ELSE Len(b)
      diffs == {i \in 1..m : a[i] # b[i]}
      first == CHOOSE i \in diffs : \A j \in diffs : i <= j
  IN  IF diffs # {} THEN (IF a[first] < b[first] THEN 0 - 1 ELSE 1)
      ELSE IF Len(a) < Len(b) THEN 0 - 1
      ELSE IF Len(a) > Len(b) THEN 1
      ELSE 0

\* big-endian bytes of a non-negative integer below 2^24, left-padded to
\* len bytes
BigEndian(v, len) ==
  [i \in 1..len |->
     CASE len - i = 0 -> v % 256
       [] len - i = 1 -> (v \div 256) % 256
       [] len - i = 2 -> (v \div 65536) % 256
       [] OTHER -> 0]

\* new BN(d): the unsigned big-endian value of a buffer
fromBuffer(d) ==
  LET value[i \in 0..Len(d)] == IF i = 0 THEN 0 ELSE 256 * value[i - 1] + d[i]
  IN  value[Len(d)]

\* d.toArrayLike(Buffer, 'be', 32): the magnitude of d, the sign is dropped
toBuffer(d) == BigEndian(IF d < 0 THEN 0 - d ELSE d, 32)

(***************************************************************************)
(* Hashing.  sha256 is a deterministic digest of the message bytes; its    *)
(* value ranges over every DigestBits-bit number, stored in 32 bytes.      *)
(***************************************************************************)
\* modulus and multiplier of the digest's polynomial
DigestModulus == 8191

DigestBase == 37

\* DigestBase^k modulo DigestModulus, by squaring
RECURSIVE BasePow(_)
BasePow(k) ==
  IF k = 0 THEN 1
  ELSE LET h == BasePow(k \div 2)
       IN  IF k % 2 = 1 THEN (((h * h) % DigestModulus) * DigestBase) % DigestModulus
           ELSE (h * h) % DigestModulus

\* the sum of msg[i] * DigestBase^(Len(msg) - i) over the positions i of a
\* set, modulo DigestModulus
RECURSIVE Absorb(_, _)
Absorb(msg, positions) ==
  IF positions = {} THEN 0
  ELSE LET i == CHOOSE j \in positions : TRUE
       IN  (msg[i] * BasePow(Len(msg) - i) + Absorb(msg, positions \ {i}))
           % DigestModulus

\* the digest of a message: the polynomial of its bytes (zero bytes add
\* nothing to the sum) combined with its length
sha256(message) ==
  toBuffer(((Absorb(message, {i \in 1..Len(message) : message[i] # 0}) * DigestBase
             + Len(message) * 101 + 5381) % DigestModulus) % Pow2(DigestBits))

\* Buffer.from(tagString, 'utf8') of the tags in use
TagAux == <<66, 73, 80, 48, 51, 52, 48, 47, 97, 117, 120>>

TagNonce == <<66, 73, 80, 48, 51, 52, 48, 47, 110, 111, 110, 99, 101>>

TagChallenge ==
  <<66, 73, 80, 48, 51, 52, 48, 47, 99, 104, 97, 108, 108, 101, 110, 103, 101>>

\* sha256(tagHash || tagHash || msg)
hashWithPrefix(tagHash, msg) == sha256(Concat(<<tagHash, tagHash, msg>>))

taggedHash(tagString, msg) == hashWithPrefix(sha256(tagString), msg)

(***************************************************************************)
(* The curve y^2 = x^3 + 7 over GF(FIELD_P), group of prime order GROUP_N  *)
(***************************************************************************)
FIELD_P == 43

GROUP_N == 31

EC_GROUP_ORDER == toBuffer(GROUP_N)

EC_P == toBuffer(FIELD_P)

\* a point is <<x, y>>; the point at infinity is <<>>
Infinity == <<>>

G == <<2, 12>>

n == GROUP_N

FMod(a) == a % FIELD_P

FInv == [a \in 1..(FIELD_P - 1) |->
           CHOOSE b \in 1..(FIELD_P - 1) : (a * b) % FIELD_P = 1]

\* P.add(Q) of elliptic's short Weierstrass points
PointAdd(P, Q) ==
  IF P = Infinity THEN Q
  ELSE IF Q = Infinity THEN P
  ELSE IF P[1] = Q[1] /\ FMod(P[2] + Q[2]) = 0 THEN Infinity
  ELSE LET lam == IF P = Q
                  THEN FMod(3 * P[1] * P[1] * FInv[FMod(2 * P[2])])
                  ELSE FMod((Q[2] - P[2]) * FInv[FMod(Q[1] - P[1])])
           x3  == FMod(lam * lam - P[1] - Q[1])
       IN  <<x3, FMod(lam * (P[1] - x3) - P[2])>>

PointDouble(P) == PointAdd(P, P)

\* P.mul(k) for a non-negative k, by double and add
RECURSIVE PointMul(_, _)
PointMul(P, k) ==
  IF k = 0 THEN Infinity
  ELSE IF k % 2 = 1 THEN PointAdd(PointDouble(PointMul(P, k \div 2)), P)
  ELSE PointDouble(PointMul(P, k \div 2))

HasPointAtX(x) == \E y \in 0..(FIELD_P - 1) : FMod(y * y) = FMod(x * x * x + 7)

\* curve.pointFromX(x, odd): the point at x whose y has the asked parity
pointFromX(x, odd) ==
  LET y == CHOOSE c \in 0..(FIELD_P - 1) :
             FMod(c * c) = FMod(x * x * x + 7) /\ ((c % 2 = 1) <=> odd)
  IN  <<x, y>>

(***************************************************************************)
(* schnorrBip340                                                           *)
(***************************************************************************)
isScalar(x) == Len(x) = 32

isPrivate(x) ==
  IF ~isScalar(x) THEN FALSE
  ELSE Compare(x, ZERO32) > 0 /\ Compare(x, EC_GROUP_ORDER) < 0

\* decodeXOnlyPoint throws exactly when this is false
decodeXOnlyPointOk(bytes) ==
  /\ Len(bytes) = 32
  /\ ~(Compare(bytes, EC_P) >= 0)
  /\ HasPointAtX(fromBuffer(bytes))

decodeXOnlyPoint(bytes) == pointFromX(fromBuffer(bytes), FALSE)

encodeXOnlyPoint(P) == toBuffer(P[1])

hasEvenY(P) == P # Infinity /\ P[2] % 2 = 0

isXOnlyPoint(x) == decodeXOnlyPointOk(x)

\* isSignature bounding both halves by the field prime instead
isSignatureBelowFieldPrime(value) ==
  IF Len(value) # 64 THEN FALSE
  ELSE LET r == Slice(value, 0, 32)
           s == Slice(value, 32, 64)
       IN  Compare(r, EC_P) < 0 /\ Compare(s, EC_P) < 0

isSignature(value) ==
  IF Len(value) # 64 THEN FALSE
  ELSE LET r == Slice(value, 0, 32)
           s == Slice(value, 32, 64)
       IN  Compare(r, EC_GROUP_ORDER) < 0 /\ Compare(s, EC_GROUP_ORDER) < 0

\* the acceptance test on R = s*G - e*P
acceptsR(R, r) == R # Infinity /\ hasEvenY(R) /\ R[1] = r

\* the challenge e = int(taggedHash('BIP0340/challenge', r || q || hash)) mod n
challenge(rBytes, q, hash) ==
  fromBuffer(taggedHash(TagChallenge, Concat(<<rBytes, q, hash>>))) % n

verifyEquation(P, r, s, e) ==
  acceptsR(PointAdd(PointMul(G, s), PointMul(P, n - e)), r)

verifySchnorr(hash, q, signature) ==
  IF ~isScalar(hash) THEN Throw("Expected Hash")
  ELSE IF ~isXOnlyPoint(q) THEN Throw("Expected Point")
  ELSE IF ~isSignature(signature) THEN Throw("Expected Signature")
  ELSE Ret(verifyEquation(decodeXOnlyPoint(q),
                          fromBuffer(Slice(signature, 0, 32)),
                          fromBuffer(Slice(signature, 32, 64)),
                          challenge(Slice(signature, 0, 32), q, hash)))

\* a.xor(b) of two non-negative numbers
RECURSIVE Xor(_, _)
Xor(a, b) ==
  IF a = 0 /\ b = 0 THEN 0
  ELSE 2 * Xor(a \div 2, b \div 2) + ((a + b) % 2)

\* a.mod(m) of bn.js: the remainder takes the sign of the dividend
BNMod(a, m) == IF a >= 0 THEN a % m ELSE 0 - ((0 - a) % m)

\* the signature R.x || (k + e*dd) mod n, k being k0 or its negation
assembleSignature(hash, dd, P, k0, R) ==
  Concat(<<encodeXOnlyPoint(R),
           toBuffer(BNMod((IF hasEvenY(R) THEN k0 ELSE n - k0)
                          + challenge(encodeXOnlyPoint(R), encodeXOnlyPoint(P), hash) * dd,
                          n))>>)

\* the checks on the nonce k0 and on R = k0*G
signWithNoncePoint(hash, dd, P, k0, R) ==
  IF k0 = 0 THEN Throw("Failure (k0===0)")
  ELSE IF R = Infinity THEN Throw("R at Infinity")
  ELSE Ret(assembleSignature(hash, dd, P, k0, R))

signWithNonce(hash, dd, P, k0) ==
  signWithNoncePoint(hash, dd, P, k0, PointMul(G, k0))

\* k0 = int(taggedHash('BIP0340/nonce', t || P.x || hash)), not reduced
signWithSeed(hash, dd, P, t) ==
  signWithNonce(hash, dd, P,
    fromBuffer(taggedHash(TagNonce,
      Concat(<<toBuffer(t), encodeXOnlyPoint(P), hash>>))))

\* t = dd xor int(taggedHash('BIP0340/aux', extraData)), or dd without extraData
signWithKey(hash, dd, P, extraData) ==
  signWithSeed(hash, dd, P,
    IF extraData # Undefined
    THEN Xor(dd, fromBuffer(taggedHash(TagAux, extraData)))
    ELSE dd)

\* dd is d, negated when P = d*G has an odd y
signWithPoint(hash, d0, P, extraData) ==
  signWithKey(hash, IF hasEvenY(P) THEN d0 ELSE n - d0, P, extraData)

\* the argument checks, nonce derivation and signature assembly of
\* __signSchnorr, up to the self-verification
signSchnorrUnverified(hash, d, extraData) ==
  IF ~isScalar(hash) THEN Throw("Expected Hash")
  ELSE IF ~isPrivate(d) THEN Throw("Expected Private")
  ELSE IF extraData # Undefined /\ Len(extraData) # 32
       THEN Throw("Expected Extra Data (32 bytes)")
  ELSE signWithPoint(hash, fromBuffer(d), PointMul(G, fromBuffer(d)), extraData)

\* the self-verification of a created signature under P = d*G
selfVerified(made, ok) ==
  IF ok.thrown THEN ok
  ELSE IF ~ok.val
       THEN Throw("The created signature does not pass verification.")
  ELSE made

selfVerify(hash, d, made) ==
  IF made.thrown THEN made
  ELSE selfVerified(made,
         verifySchnorr(hash, encodeXOnlyPoint(PointMul(G, fromBuffer(d))), made.val))

\* __signSchnorr without the check of the created signature
signSchnorrNoSelfCheck(hash, d, extraData) ==
  signSchnorrUnverified(hash, d, extraData)

\* __signSchnorr replacing the auxiliary data by a different value on
\* every call made while an earlier outcome is still held
signSchnorrFreshAux(hash, d, extraData) ==
  selfVerify(hash, d,
    signSchnorrUnverified(hash, d,
      IF call.fn = "none" THEN extraData
      ELSE IF extraData = Undefined THEN ZERO32
      ELSE toBuffer(fromBuffer(extraData) + 1)))

__signSchnorr(hash, d, extraData) ==
  selfVerify(hash, d, signSchnorrUnverified(hash, d, extraData))

(***************************************************************************)
(* tiny-secp256k1 (ecc) as used by taproot and p2ns: points are 33-byte     *)
(* compressed buffers                                                      *)
(***************************************************************************)
\* JavaScript's null
Null == <<0 - 2>>

\* ecc.isPoint
isPoint(p) ==
  IF Len(p) < 33 THEN FALSE
  ELSE IF Compare(Slice(p, 1, 33), ZERO32) = 0 THEN FALSE
  ELSE IF Compare(Slice(p, 1, 33), EC_P) >= 0 THEN FALSE
  ELSE IF (p[1] = 2 \/ p[1] = 3) /\ Len(p) = 33
       THEN HasPointAtX(fromBuffer(Slice(p, 1, 33)))
  ELSE IF Compare(Slice(p, 33, Len(p)), ZERO32) = 0 THEN FALSE
  ELSE IF Compare(Slice(p, 33, Len(p)), EC_P) >= 0 THEN FALSE
  ELSE p[1] = 4 /\ Len(p) = 65

\* a 32-byte scalar below the group order
isOrderScalar(x) == isScalar(x) /\ Compare(x, EC_GROUP_ORDER) < 0

\* the point of a compressed encoding
decodePoint(p) == pointFromX(fromBuffer(Slice(p, 1, 33)), p[1] = 3)

\* the compressed encoding of a point, null for the point at infinity
encodePoint(P) ==
  IF P = Infinity THEN Null
  ELSE Concat(<<(IF P[2] % 2 = 0 THEN <<2>> ELSE <<3>>), toBuffer(P[1])>>)

\* ecc.pointAddScalar(p, tweak)
pointAddScalar(p, tweak) ==
  IF ~isPoint(p) THEN Throw("Expected Point")
  ELSE IF ~isOrderScalar(tweak) THEN Throw("Expected Tweak")
  ELSE Ret(encodePoint(PointAdd(decodePoint(p), PointMul(G, fromBuffer(tweak)))))

\* ecc.pointMultiply(p, tweak)
pointMultiply(p, tweak) ==
  IF ~isPoint(p) THEN Throw("Expected Point")
  ELSE IF ~isOrderScalar(tweak) THEN Throw("Expected Tweak")
  ELSE Ret(encodePoint(PointMul(decodePoint(p), fromBuffer(tweak))))

\* ecc.pointAdd(pA, pB)
pointAdd(pA, pB) ==
  IF pA = Null \/ pB = Null THEN Throw("Expected Point")
  ELSE IF ~isPoint(pA) \/ ~isPoint(pB) THEN Throw("Expected Point")
  ELSE Ret(encodePoint(PointAdd(decodePoint(pA), decodePoint(pB))))

(***************************************************************************)
(* The script codec (bscript).  A chunk is a buffer or an opcode; the      *)
(* opcode k is the one-element sequence <<256 + k>>, which is no buffer.   *)
(***************************************************************************)
Op(k) == <<256 + k>>

IsOp(chunk) == Len(chunk) = 1 /\ chunk[1] >= 256

OP_0 == 0

OP_PUSHDATA1 == 76

OP_PUSHDATA2 == 77

OP_PUSHDATA4 == 78

OP_1NEGATE == 79

OP_RESERVED == 80

OP_CHECKSIG == 172

OP_CHECKSIGVERIFY == 173

\* asMinimalOP: the opcode that pushes this data, or the data itself
minimalChunk(data) ==
  IF Len(data) = 0 THEN Op(OP_0)
  ELSE IF Len(data) # 1 THEN data
  ELSE IF data[1] >= 1 /\ data[1] <= 16 THEN Op(OP_RESERVED + data[1])
  ELSE IF data[1] = 129 THEN Op(OP_1NEGATE)
  ELSE data

\* pushdata.decode: the bytes of the length prefix at offset i, or 0 when it
\* cannot be read
pushSize(buffer, i) ==
  CASE buffer[i + 1] < OP_PUSHDATA1 -> 1
    [] buffer[i + 1] = OP_PUSHDATA1 -> IF i + 2 > Len(buffer) THEN 0 ELSE 2
    [] buffer[i + 1] = OP_PUSHDATA2 -> IF i + 3 > Len(buffer) THEN 0 ELSE 3
    [] OTHER -> IF i + 5 > Len(buffer) THEN 0 ELSE 5

\* pushdata.decode: the length of the pushed data
pushNumber(buffer, i) ==
  CASE buffer[i + 1] < OP_PUSHDATA1 -> buffer[i + 1]
    [] buffer[i + 1] = OP_PUSHDATA1 -> buffer[i + 2]
    [] buffer[i + 1] = OP_PUSHDATA2 -> buffer[i + 2] + 256 * buffer[i + 3]
    [] OTHER -> buffer[i + 2] + 256 * buffer[i + 3] + 65536 * buffer[i + 4]

\* the loop of decompile from offset i (0-based) with the chunks read so far
RECURSIVE decompileFrom(_, _, _)
decompileFrom(buffer, i, acc) ==
  IF i >= Len(buffer) THEN Present(acc)
  ELSE IF buffer[i + 1] > OP_0 /\ buffer[i + 1] <= OP_PUSHDATA4
  THEN IF pushSize(buffer, i) = 0 THEN Absent
       ELSE IF i + pushSize(buffer, i) + pushNumber(buffer, i) > Len(buffer)
            THEN Absent
       ELSE decompileFrom(buffer,
              i + pushSize(buffer, i) + pushNumber(buffer, i),
              Append(acc, minimalChunk(Slice(buffer, i + pushSize(buffer, i),
                       i + pushSize(buffer, i) + pushNumber(buffer, i)))))
  ELSE decompileFrom(buffer, i + 1, Append(acc, Op(buffer[i + 1])))

\* bscript.decompile(buffer)
decompile(buffer) == decompileFrom(buffer, 0, <<>>)

\* pushdata.encode followed by the data
pushData(data) ==
  IF Len(data) < OP_PUSHDATA1 THEN <<Len(data)>> \o data
  ELSE IF Len(data) <= 255 THEN <<OP_PUSHDATA1, Len(data)>> \o data
  ELSE <<OP_PUSHDATA2, Len(data) % 256, Len(data) \div 256>> \o data

\* the bytes of one chunk in bscript.compile
compileChunk(chunk) ==
  IF IsOp(chunk) THEN <<chunk[1] - 256>>
  ELSE IF IsOp(minimalChunk(chunk)) THEN <<minimalChunk(chunk)[1] - 256>>
  ELSE pushData(chunk)

\* bscript.compile(chunks)
compile(chunks) == Concat([i \in 1..Len(chunks) |-> compileChunk(chunks[i])])

(***************************************************************************)
(* taproot                                                                 *)
(***************************************************************************)
TagTapLeaf == <<84, 97, 112, 76, 101, 97, 102>>

TagTapBranch == <<84, 97, 112, 66, 114, 97, 110, 99, 104>>

TagTapTweak == <<84, 97, 112, 84, 119, 101, 97, 107>>

TagKeyAggList == <<75, 101, 121, 65, 103, 103, 32, 108, 105, 115, 116>>

TagKeyAggCoefficient ==
  <<75, 101, 121, 65, 103, 103, 32, 99, 111, 101, 102, 102, 105, 99, 105, 101,
    110, 116>>

EVEN_Y_COORD_PREFIX == <<2>>

INITIAL_TAPSCRIPT_VERSION == <<192>>

\* the annex marker and the leaf version that is ambiguous with it
ANNEX_PREFIX == 80

\* varuint.encode, for lengths below 2^16
varuintEncode(len) ==
  IF len < 253 THEN <<len>> ELSE <<253, len % 256, len \div 256>>

serializeScriptSize(script) == varuintEncode(Len(script))

\* the tapleaf hash under a given leaf version
tapLeafHash(leafVersion, script) ==
  taggedHash(TagTapLeaf,
    Concat(<<<<leafVersion>>, serializeScriptSize(script), script>>))

hashTapLeaf(script) == tapLeafHash(INITIAL_TAPSCRIPT_VERSION[1], script)

\* hashTapBranch hashing the children in the order given
hashTapBranchUnsorted(child1, child2) ==
  taggedHash(TagTapBranch, Concat(<<child1, child2>>))

hashTapBranch(child1, child2) ==
  IF Compare(child1, child2) > 0
  THEN taggedHash(TagTapBranch, Concat(<<child2, child1>>))
  ELSE taggedHash(TagTapBranch, Concat(<<child1, child2>>))

\* the parity and x-only key of a tweaked point; reading a null point throws
tweakedPubkeyOf(tweaked) ==
  IF tweaked.thrown THEN tweaked
  ELSE IF tweaked.val = Null THEN Throw("TypeError: null")
  ELSE Ret([parity |-> IF tweaked.val[1] = EVEN_Y_COORD_PREFIX[1] THEN 0 ELSE 1,
            pubkey |-> Slice(tweaked.val, 1, Len(tweaked.val))])

\* tapTweakPubkey(pubkey, tapTreeRoot): the root may be Undefined
tapTweakPubkey(pubkey, tapTreeRoot) ==
  tweakedPubkeyOf(
    pointAddScalar(Concat(<<EVEN_Y_COORD_PREFIX, pubkey>>),
      IF tapTreeRoot # Undefined
      THEN taggedHash(TagTapTweak, Concat(<<pubkey, tapTreeRoot>>))
      ELSE taggedHash(TagTapTweak, pubkey)))

\* getControlBlock with the leaf version alone in the first byte
getControlBlockWithoutParity(parity, pubkey, path) ==
  Concat(<<<<INITIAL_TAPSCRIPT_VERSION[1]>>, pubkey, Concat(path)>>)

getControlBlock(parity, pubkey, path) ==
  Concat(<<<<INITIAL_TAPSCRIPT_VERSION[1] + parity>>, pubkey, Concat(path)>>)

\* removeAnnex without the requirement of two elements
removeAnnexFromAnyStack(witnessStack) ==
  IF Len(witnessStack) >= 1
     /\ Len(witnessStack[Len(witnessStack)]) > 0
     /\ witnessStack[Len(witnessStack)][1] = ANNEX_PREFIX
  THEN SubSeq(witnessStack, 1, Len(witnessStack) - 1)
  ELSE witnessStack

removeAnnex(witnessStack) ==
  IF Len(witnessStack) >= 2
     /\ Len(witnessStack[Len(witnessStack)]) > 0
     /\ witnessStack[Len(witnessStack)][1] = ANNEX_PREFIX
  THEN SubSeq(witnessStack, 1, Len(witnessStack) - 1)
  ELSE witnessStack

\* the checks of parseTaprootWitness on a decompiled tapscript and a control
\* block, without the leaf version check
parsedWitnessAnyVersion(tapscript, tapscriptChunks, controlBlock) ==
  IF ~tapscriptChunks.has \/ Len(tapscriptChunks.v) = 0
  THEN Throw("tapscript is not a valid script")
  ELSE IF Len(controlBlock) < 33 \/ Len(controlBlock) > 33 + 32 * 128
          \/ Len(controlBlock) % 32 # 1
  THEN Throw("invalid control block length")
  ELSE IF ~isPoint(Concat(<<EVEN_Y_COORD_PREFIX, Slice(controlBlock, 1, 33)>>))
  THEN Throw("internal pubkey is not an EC point")
  ELSE Ret([tapscript |-> tapscript,
            controlBlock |-> controlBlock,
            taptreeDepth |-> (Len(controlBlock) \div 32) - 1,
            internalPubkey |-> Slice(controlBlock, 1, 33),
            leafVersion |-> (controlBlock[1] - (controlBlock[1] % 2))])

\* the checks of parseTaprootWitness with the depth taken as the number of
\* 32-byte blocks of the whole control block
parsedWitnessDepthOfBlocks(tapscript, tapscriptChunks, controlBlock) ==
  IF ~tapscriptChunks.has \/ Len(tapscriptChunks.v) = 0
  THEN Throw("tapscript is not a valid script")
  ELSE IF Len(controlBlock) < 33 \/ Len(controlBlock) > 33 + 32 * 128
          \/ Len(controlBlock) % 32 # 1
  THEN Throw("invalid control block length")
  ELSE IF ~isPoint(Concat(<<EVEN_Y_COORD_PREFIX, Slice(controlBlock, 1, 33)>>))
  THEN Throw("internal pubkey is not an EC point")
  ELSE IF (controlBlock[1] - (controlBlock[1] % 2)) = ANNEX_PREFIX
  THEN Throw("invalid leaf version")
  ELSE Ret([tapscript |-> tapscript,
            controlBlock |-> controlBlock,
            taptreeDepth |-> Len(controlBlock) \div 32,
            internalPubkey |-> Slice(controlBlock, 1, 33),
            leafVersion |-> (controlBlock[1] - (controlBlock[1] % 2))])

\* the checks of parseTaprootWitness on a decompiled tapscript and a control
\* block
parsedWitness(tapscript, tapscriptChunks, controlBlock) ==
  IF ~tapscriptChunks.has \/ Len(tapscriptChunks.v) = 0
  THEN Throw("tapscript is not a valid script")
  ELSE IF Len(controlBlock) < 33 \/ Len(controlBlock) > 33 + 32 * 128
          \/ Len(controlBlock) % 32 # 1
  THEN Throw("invalid control block length")
  ELSE IF ~isPoint(Concat(<<EVEN_Y_COORD_PREFIX, Slice(controlBlock, 1, 33)>>))
  THEN Throw("internal pubkey is not an EC point")
  ELSE IF (controlBlock[1] - (controlBlock[1] % 2)) = ANNEX_PREFIX
  THEN Throw("invalid leaf version")
  ELSE Ret([tapscript |-> tapscript,
            controlBlock |-> controlBlock,
            taptreeDepth |-> (Len(controlBlock) \div 32) - 1,
            internalPubkey |-> Slice(controlBlock, 1, 33),
            leafVersion |-> (controlBlock[1] - (controlBlock[1] % 2))])

\* parseTaprootWitness(witnessStack), for a stack of at least two elements
parseTaprootWitness(witnessStack) ==
  parsedWitness(witnessStack[Len(witnessStack) - 1],
                decompile(witnessStack[Len(witnessStack) - 1]),
                witnessStack[Len(witnessStack)])

\* the loop over the levels of the taptree: taptreePath holds the leaf hash
\* and the branch hashes computed so far, the result is
\* taptreePath[taptreeDepth]
RECURSIVE taptreeRootFrom(_, _, _, _)
taptreeRootFrom(taptreePath, controlBlock, j, taptreeDepth) ==
  IF Len(taptreePath) > taptreeDepth THEN taptreePath[taptreeDepth + 1]
  ELSE taptreeRootFrom(
         Append(taptreePath,
           IF Compare(taptreePath[j + 1],
                      Slice(controlBlock, 33 + 32 * j, 65 + 32 * j)) = 0 - 1
           THEN taggedHash(TagTapBranch,
                  Concat(<<taptreePath[j + 1],
                           Slice(controlBlock, 33 + 32 * j, 65 + 32 * j)>>))
           ELSE taggedHash(TagTapBranch,
                  Concat(<<Slice(controlBlock, 33 + 32 * j, 65 + 32 * j),
                           taptreePath[j + 1]>>))),
         controlBlock, j + 1, taptreeDepth)

\* the comparison of the witness program with the tweaked internal key
matchesProgram(witnessProgram, taprootPubkey) ==
  IF taprootPubkey.thrown THEN taprootPubkey
  ELSE IF taprootPubkey.val = Null THEN Throw("TypeError: null")
  ELSE Ret(Compare(witnessProgram,
                   Slice(taprootPubkey.val, 1, Len(taprootPubkey.val))) = 0)

\* isValidTapscript after the witness has been parsed
validateParsed(parsed, witnessProgram) ==
  IF parsed.thrown THEN parsed
  ELSE matchesProgram(witnessProgram,
         pointAddScalar(
           Concat(<<EVEN_Y_COORD_PREFIX, parsed.val.internalPubkey>>),
           taggedHash(TagTapTweak,
             Concat(<<parsed.val.internalPubkey,
                      taptreeRootFrom(
                        <<tapLeafHash(parsed.val.leafVersion, parsed.val.tapscript)>>,
                        parsed.val.controlBlock, 0, parsed.val.taptreeDepth)>>))))

isValidTapscript(witnessStack, witnessProgram) ==
  validateParsed(parseTaprootWitness(witnessStack), witnessProgram)

isScriptPathSpend(chunks) == ~parseTaprootWitness(chunks).thrown

(***************************************************************************)
(* FastPriorityQueue: a binary heap in an array, ordered by the strict     *)
(* comparator a.weight < b.weight of getHuffmanTaptree                     *)
(***************************************************************************)
\* the loop of add: the hole at 0-based index i moves up while myval is
\* smaller than the parent
RECURSIVE siftUp(_, _, _)
siftUp(array, i, myval) ==
  IF i > 0 /\ myval.weight < array[((i - 1) \div 2) + 1].weight
  THEN siftUp([array EXCEPT ![i + 1] = array[((i - 1) \div 2) + 1]],
              (i - 1) \div 2, myval)
  ELSE [array EXCEPT ![i + 1] = myval]

\* queue.add(myval) leaving the new element at the end of the array
queueAddAtEnd(array, myval) == Append(array, myval)

\* queue.add(myval)
queueAdd(array, myval) == siftUp(Append(array, myval), Len(array), myval)

\* the 0-based index of the better child of i in _percolateDown
bestChild(array, i) ==
  IF 2 * i + 2 < Len(array)
     /\ array[2 * i + 3].weight < array[2 * i + 2].weight
  THEN 2 * i + 2
  ELSE 2 * i + 1

\* _percolateDown: the hole at 0-based index i moves down while a child is
\* smaller than ai
RECURSIVE percolateDown(_, _, _)
percolateDown(array, i, ai) ==
  IF i < Len(array) \div 2
     /\ array[bestChild(array, i) + 1].weight < ai.weight
  THEN percolateDown([array EXCEPT ![i + 1] = array[bestChild(array, i) + 1]],
                     bestChild(array, i), ai)
  ELSE [array EXCEPT ![i + 1] = ai]

\* the queue after queue.poll(); the polled element is array[1]
queuePoll(array) ==
  IF Len(array) > 1
  THEN percolateDown(SubSeq(array, 1, Len(array) - 1), 0, array[Len(array)])
  ELSE <<>>

(***************************************************************************)
(* getHuffmanTaptree                                                       *)
(***************************************************************************)
\* a weight given by the caller is <<k>> for the number k and <<>> for
\* undefined
\* weights[index] || 1: undefined and 0 are falsy
effectiveWeight(weights, index) ==
  IF index + 1 > Len(weights) THEN 1
  ELSE IF weights[index + 1] = <<>> THEN 1
  ELSE IF weights[index + 1][1] = 0 THEN 1
  ELSE weights[index + 1][1]

\* the queue entry of the script at a 0-based index
leafEntry(script, weight, index) ==
  [weight |-> weight, taggedHash |-> hashTapLeaf(script),
   paths |-> (index :> <<>>)]

\* scripts.forEach: add the leaves from index on, or fail on a weight <= 0
RECURSIVE addLeaves(_, _, _, _)
addLeaves(queue, scripts, weights, index) ==
  IF index >= Len(scripts) THEN Ret(queue)
  ELSE IF ~(effectiveWeight(weights, index) > 0)
  THEN Throw("script weight must be a positive value")
  ELSE addLeaves(
         queueAdd(queue,
           leafEntry(scripts[index + 1], effectiveWeight(weights, index), index)),
         scripts, weights, index + 1)

\* every path of an entry with a sibling hash put in front of it
pushSiblingInFront(paths, sibling) ==
  [i \in DOMAIN paths |-> <<sibling>> \o paths[i]]

\* every path of an entry with a sibling hash pushed
pushSibling(paths, sibling) ==
  [i \in DOMAIN paths |-> Append(paths[i], sibling)]

\* the branch entry that carries the paths of its first child only
branchEntryOfFirst(child1, child2) ==
  [taggedHash |-> hashTapBranch(child1.taggedHash, child2.taggedHash),
   weight |-> child1.weight + child2.weight,
   paths |-> pushSibling(child1.paths, child2.taggedHash)]

\* the branch entry made of two polled children
branchEntry(child1, child2) ==
  [taggedHash |-> hashTapBranch(child1.taggedHash, child2.taggedHash),
   weight |-> child1.weight + child2.weight,
   paths |-> pushSibling(child1.paths, child2.taggedHash)
             @@ pushSibling(child2.paths, child1.taggedHash)]

\* the second poll leaving the second child in the queue
mergeSecondKeepingChild(child1, queue1) ==
  queueAdd(queue1, branchEntry(child1, queue1[1]))

\* the second poll and the add of one loop iteration
mergeSecond(child1, queue1) ==
  queueAdd(queuePoll(queue1), branchEntry(child1, queue1[1]))

\* the while loop
RECURSIVE mergeAll(_)
mergeAll(queue) ==
  IF Len(queue) > 1 THEN mergeAll(mergeSecond(queue[1], queuePoll(queue)))
  ELSE queue

\* the result built from the last entry of the queue; a hole of
\* Array(scripts.length) that no path fills is held as <<Undefined>>
taptreeOf(rootNode, count) ==
  [root |-> rootNode.taggedHash,
   paths |-> [i \in 1..count |->
                IF (i - 1) \in DOMAIN rootNode.paths THEN rootNode.paths[i - 1]
                ELSE <<Undefined>>]]

\* getHuffmanTaptree after the leaves were queued
huffmanOfLeaves(leaves, count) ==
  IF leaves.thrown THEN leaves ELSE Ret(taptreeOf(mergeAll(leaves.val)[1], count))

getHuffmanTaptree(scripts, weights) ==
  IF ~(Len(scripts) > 0)
  THEN Throw("at least one script is required to construct a tap tree")
  ELSE huffmanOfLeaves(addLeaves(<<>>, scripts, weights, 0), Len(scripts))

(***************************************************************************)
(* aggregateMuSigPubkeys                                                   *)
(***************************************************************************)
\* insertion of a buffer into an ascending list
RECURSIVE insertSorted(_, _)
insertSorted(list, b) ==
  IF list = <<>> THEN <<b>>
  ELSE IF Compare(b, Head(list)) < 0 THEN <<b>> \o list
  ELSE <<Head(list)>> \o insertSorted(Tail(list), b)

\* pubkeys.sort(Buffer.compare)
RECURSIVE sortBuffers(_)
sortBuffers(list) ==
  IF list = <<>> THEN <<>> ELSE insertSorted(sortBuffers(Tail(list)), Head(list))

\* the map callback: the key at 0-based index 1 is kept, the others are
\* multiplied by their KeyAgg coefficient
tweakedPubkey(L, pubkey, index) ==
  IF index = 1 THEN Ret(Concat(<<EVEN_Y_COORD_PREFIX, pubkey>>))
  ELSE pointMultiply(Concat(<<EVEN_Y_COORD_PREFIX, pubkey>>),
         taggedHash(TagKeyAggCoefficient, Concat(<<L, pubkey>>)))

\* one step of the reduce: prev is the outcome so far, curr the next point
addTweaked(prev, curr) ==
  IF prev.thrown THEN prev
  ELSE IF curr.thrown THEN curr
  ELSE pointAdd(prev.val, curr.val)

\* the map and the reduce over the sorted keys from 0-based index on; a
\* throw of the map comes before any addition
RECURSIVE sumTweaked(_, _, _, _)
sumTweaked(L, sorted, index, prev) ==
  IF index >= Len(sorted) THEN prev
  ELSE sumTweaked(L, sorted, index + 1,
         addTweaked(prev, tweakedPubkey(L, sorted[index + 1], index)))

RECURSIVE firstMapThrow(_, _, _)
firstMapThrow(L, sorted, index) ==
  IF index >= Len(sorted) THEN Ret(Null)
  ELSE IF tweakedPubkey(L, sorted[index + 1], index).thrown
  THEN tweakedPubkey(L, sorted[index + 1], index)
  ELSE firstMapThrow(L, sorted, index + 1)

\* aggregatePubkey.slice(1); slicing null throws
xOnlyOfAggregate(sum) ==
  IF sum.thrown THEN sum
  ELSE IF sum.val = Null THEN Throw("TypeError: null")
  ELSE Ret(Slice(sum.val, 1, Len(sum.val)))

\* the aggregation of keys that are already in the order to be used
aggregateWithList(L, sorted) ==
  IF firstMapThrow(L, sorted, 0).thrown THEN firstMapThrow(L, sorted, 0)
  ELSE xOnlyOfAggregate(
         sumTweaked(L, sorted, 1, tweakedPubkey(L, sorted[1], 0)))

aggregateOrdered(sorted) ==
  aggregateWithList(taggedHash(TagKeyAggList, Concat(sorted)), sorted)

\* the caller's list after aggregateMuSigPubkeys(pubkeys): the assert throws
\* before anything is touched, pubkeys.sort sorts the list itself
pubkeysAfterCall(pubkeys) ==
  IF ~(Len(pubkeys) > 1) THEN pubkeys ELSE sortBuffers(pubkeys)

\* aggregateMuSigPubkeys using the keys in the caller's order
aggregateMuSigPubkeysUnsorted(pubkeys) ==
  IF ~(Len(pubkeys) > 1)
  THEN Throw("at least two pubkeys are required for musig key aggregation")
  ELSE aggregateOrdered(pubkeys)

aggregateMuSigPubkeys(pubkeys) ==
  IF ~(Len(pubkeys) > 1)
  THEN Throw("at least two pubkeys are required for musig key aggregation")
  ELSE aggregateOrdered(sortBuffers(pubkeys))

(***************************************************************************)
(* Inputs of the Schnorr calls                                             *)
(***************************************************************************)
\* 32-byte message hashes
Hashes == {toBuffer(v) : v \in 0..MaxMsg}

\* xOnly(d * G)
xOnlyPubkey(d) == encodeXOnlyPoint(PointMul(G, fromBuffer(d)))

(***************************************************************************)
(* Specification of the Schnorr engine: one call per behaviour step        *)
(***************************************************************************)
Idle == [fn |-> "none"]

Init == call = Idle /\ ret = Ret(Undefined)

\* sign, then verify the result against the signer's x-only public key
SignRoundTrip ==
  /\ call = Idle
  /\ \E h \in Hashes, d \in {toBuffer(v) : v \in 1..(GROUP_N - 1)}, aux \in {Undefined} \cup {toBuffer(v) : v \in 0..MaxMsg} :
       /\ call' = [fn |-> "signVerify", hash |-> h, d |-> d, aux |-> aux,
                   sig |-> __signSchnorr(h, d, aux)]
       /\ ret' = IF call'.sig.thrown THEN call'.sig
                 ELSE verifySchnorr(h, xOnlyPubkey(d), call'.sig.val)

\* signSchnorr(hash, d) of schnorrBip340.ts: the auxiliary data is
\* Buffer.alloc(32)
signSchnorr(hash, d) == __signSchnorr(hash, d, Zeros(32))

\* signSchnorrWithoutExtraData(hash, d) of the compiled module: extraData is
\* undefined
signSchnorrWithoutExtraData(hash, d) == __signSchnorr(hash, d, Undefined)

\* signing without auxiliary randomness, by the entry point that the
\* TypeScript source or the compiled module offers for it
SignWithoutAux ==
  /\ call = Idle
  /\ \E h \in Hashes, d \in {toBuffer(v) : v \in 1..(GROUP_N - 1)},
        build \in {"ts", "js"} :
       /\ call' = [fn |-> "signWithoutAux", hash |-> h, d |-> d,
                   aux |-> Undefined, build |-> build]
       /\ ret' = IF build = "ts" THEN signSchnorr(h, d)
                 ELSE signSchnorrWithoutExtraData(h, d)

\* the signer called a second time with the arguments of the call whose
\* outcome the caller holds
SignAgain ==
  /\ call.fn = "signVerify"
  /\ call' = [fn |-> "signAgain", hash |-> call.hash, d |-> call.d,
              aux |-> call.aux, sig |-> call.sig]
  /\ ret' = __signSchnorr(call.hash, call.d, call.aux)

\* numbers used as signature halves: below GROUP_N, GROUP_N itself, between
\* GROUP_N and FIELD_P, FIELD_P itself and with a non-zero higher byte
HalfValues == {0, 2, GROUP_N - 1, GROUP_N, 35, FIELD_P, 258}

\* a 64-byte signature r || s cut or extended to siglen bytes
MakeSignature(rv, sv, siglen) ==
  Slice(Concat(<<toBuffer(rv), toBuffer(sv), <<0>>>>), 0, siglen)

\* verify a (possibly malformed) signature under a (possibly malformed) key
Verify ==
  /\ call = Idle
  /\ \E h \in Hashes, qv \in {1, 2, 7, FIELD_P, 50, 258}, qlen \in {31, 32, 33},
        rv \in HalfValues, sv \in HalfValues, siglen \in {63, 64, 65} :
       /\ call' = [fn |-> "verify", hash |-> h, qv |-> qv, qlen |-> qlen,
                   rv |-> rv, sv |-> sv, siglen |-> siglen]
       /\ ret' = verifySchnorr(h, BigEndian(qv, qlen),
                               MakeSignature(rv, sv, siglen))

\* the caller takes the outcome; the engine is ready for the next call
Return == call # Idle /\ call' = Idle /\ ret' = Ret(Undefined)

NextSchnorr == SignRoundTrip \/ SignWithoutAux \/ SignAgain \/ Verify \/ Return

SpecSchnorr == Init /\ [][NextSchnorr]_vars

(***************************************************************************)
(* Inputs of the taproot calls                                             *)
(***************************************************************************)
\* the permutations of 1..k
PermutationsOf(k) ==
  {p \in [1..k -> 1..k] : \A i, j \in 1..k : p[i] = p[j] => i = j}

\* the lists of k elements of a set in ascending order: every list is a
\* reordering of one of them
AscendingLists(S, k) ==
  {list \in [1..k -> S] :
     \A i \in 1..(k - 1) : Compare(list[i], list[i + 1]) <= 0}

\* the list reordered by a permutation
Permuted(list, p) == [i \in 1..Len(list) |-> list[p[i]]]

\* tapscripts that decompile to one or two chunks: OP_1, OP_CHECKSIG and a
\* one-byte push followed by OP_CHECKSIG
ValidScripts == {<<81>>, <<172>>, <<1, 99, 172>>}

\* the empty script, and a push that runs past the end of the script
MalformedScripts == {<<>>, <<2, 1>>}

\* x-only internal keys: 2 and 7 are on the curve, 1 is not
InternalKeys == {toBuffer(2), toBuffer(7)}

(***************************************************************************)
(* Specification of the taproot engine: one call per behaviour step        *)
(***************************************************************************)
\* removeAnnex applied once and twice
RemoveAnnex ==
  /\ call = Idle
  /\ \E k \in 0..MaxStack :
       \E stack \in [1..k -> {<<80>>, <<80, 1>>, <<1>>, <<>>}] :
         /\ call' = [fn |-> "removeAnnex", stack |-> stack]
         /\ ret' = Ret(<<removeAnnex(stack), removeAnnex(removeAnnex(stack))>>)

\* a control block of cbLen bytes: first byte, internal key, zero filling
MakeControlBlock(first, keyv, cbLen) ==
  Slice(Concat(<<<<first>>, toBuffer(keyv), Zeros(cbLen)>>), 0, cbLen)

\* isValidTapscript and isScriptPathSpend on a (possibly malformed) witness
ValidateWitness ==
  /\ call = Idle
  /\ \E script \in ValidScripts \cup MalformedScripts,
        first \in {192, 193, 80, 81},
        keyv \in {1, 2},
        cbLen \in {32, 33, 34, 65, 66, 97, 33 + 32 * 128 + 1, 33 + 32 * 129},
        program \in InternalKeys :
       /\ call' = [fn |-> "isValidTapscript", script |-> script,
                   first |-> first, keyv |-> keyv, cbLen |-> cbLen,
                   program |-> program,
                   parsed |->
                     parseTaprootWitness(<<script, MakeControlBlock(first, keyv, cbLen)>>),
                   scriptPathSpend |->
                     isScriptPathSpend(<<script, MakeControlBlock(first, keyv, cbLen)>>)]
       /\ ret' = isValidTapscript(
                   <<script, MakeControlBlock(first, keyv, cbLen)>>, program)

\* script weights that getHuffmanTaptree is meant to accept: undefined, which
\* counts as 1, and a larger one
PositiveWeights == {<<>>, <<MaxWeight>>}

\* getHuffmanTaptree on scripts that differ only in their weights
GetHuffmanTaptree ==
  /\ call = Idle
  /\ \E k \in 0..MaxScripts :
       \E weights \in [1..k -> {<<>>} \cup {<<w>> : w \in (0 - 1)..MaxWeight}] :
         /\ call' = [fn |-> "getHuffmanTaptree", scripts |-> [i \in 1..k |-> <<81>>],
                     weights |-> weights,
                     asOnes |-> getHuffmanTaptree([i \in 1..k |-> <<81>>],
                                  [i \in 1..k |->
                                     IF weights[i] = <<>> THEN <<1>>
                                     ELSE weights[i]])]
         /\ ret' = getHuffmanTaptree([i \in 1..k |-> <<81>>], weights)

\* the call with every leaf checked by isValidTapscript with its own control
\* block
spendRecord(scripts, weights, internalKey, tree, tweaked) ==
  [fn |-> "spendLeaves", scripts |-> scripts, weights |-> weights,
   internalKey |-> internalKey, tree |-> tree, tweaked |-> tweaked,
   valid |-> IF tree.thrown \/ tweaked.thrown THEN <<>>
             ELSE [i \in 1..Len(scripts) |->
                     isValidTapscript(
                       <<scripts[i],
                         getControlBlock(tweaked.val.parity, internalKey,
                                         tree.val.paths[i])>>,
                       tweaked.val.pubkey)]]

\* build a taptree, tweak the internal key with its root, and validate every
\* leaf script against the tweaked key with the leaf's control block
SpendLeaves ==
  /\ call = Idle
  /\ \E k \in 1..MaxScripts :
       \E scripts \in [1..k -> ValidScripts],
          weights \in [1..k -> PositiveWeights],
          internalKey \in InternalKeys :
         /\ ret' = getHuffmanTaptree(scripts, weights)
         /\ call' = spendRecord(scripts, weights, internalKey, ret',
                                IF ret'.thrown THEN ret'
                                ELSE tapTweakPubkey(internalKey, ret'.val.root))

\* getHuffmanTaptree on a list of equally weighted scripts and on a
\* reordering of it
PermuteScripts ==
  /\ call = Idle
  /\ \E k \in 1..MaxScripts :
       \E scripts \in AscendingLists(ValidScripts, k),
          p \in PermutationsOf(k),
          weight \in PositiveWeights :
         /\ call' = [fn |-> "permuteScripts", scripts |-> scripts,
                     permuted |-> Permuted(scripts, p), weight |-> weight,
                     other |-> getHuffmanTaptree(Permuted(scripts, p),
                                                 [i \in 1..k |-> weight])]
         /\ ret' = getHuffmanTaptree(scripts, [i \in 1..k |-> weight])

\* aggregateMuSigPubkeys on a list of keys and on a reordering of it
Aggregate ==
  /\ call = Idle
  /\ \E k \in 0..MaxKeys :
       \E pubkeys \in AscendingLists({toBuffer(2), toBuffer(7), toBuffer(12),
                                       toBuffer(21)}, k),
          p \in PermutationsOf(k) :
         /\ call' = [fn |-> "aggregate", pubkeys |-> pubkeys,
                     permuted |-> Permuted(pubkeys, p),
                     permutedAfter |-> pubkeysAfterCall(Permuted(pubkeys, p)),
                     other |-> aggregateMuSigPubkeys(Permuted(pubkeys, p))]
         /\ ret' = aggregateMuSigPubkeys(pubkeys)

\* parseTaprootWitness on a tapscript and the control block that
\* getControlBlock makes of a parity, an internal key and a path of up to
\* MaxScripts, or of 128, sibling hashes
ParseControlBlock ==
  /\ call = Idle
  /\ \E parity \in {0, 1}, pubkey \in InternalKeys,
        k \in (0..MaxScripts) \cup {128} :
       \E path \in IF k = 128 THEN {[i \in 1..k |-> toBuffer(i)]}
                    ELSE [1..k -> {toBuffer(1), toBuffer(2)}] :
         /\ call' = [fn |-> "parseControlBlock", parity |-> parity,
                     pubkey |-> pubkey, path |-> path]
         /\ ret' = parseTaprootWitness(
                     <<<<81>>, getControlBlock(parity, pubkey, path)>>)

NextTaproot ==
  \/ RemoveAnnex
  \/ ParseControlBlock
  \/ ValidateWitness
  \/ GetHuffmanTaptree
  \/ SpendLeaves
  \/ PermuteScripts
  \/ Aggregate
  \/ Return

SpecTaproot == Init /\ [][NextTaproot]_vars

(***************************************************************************)
(* Specification of the merge loop of getHuffmanTaptree: one iteration per *)
(* behaviour step                                                          *)
(***************************************************************************)
\* the queue at the head of the while loop in every iteration that a queue
\* goes through, the first one included; no more than count iterations are
\* followed
RECURSIVE loopQueues(_, _)
loopQueues(queue, count) ==
  IF Len(queue) > 1 /\ count > 0
  THEN <<queue>> \o loopQueues(mergeSecond(queue[1], queuePoll(queue)), count - 1)
  ELSE <<queue>>

\* getHuffmanTaptree up to the head of the while loop: 1..MaxScripts
\* scripts, all different or all the same, with weights undefined or
\* 1..MaxWeight, are queued.  What the iterations do depends on the queue
\* alone: their queues are held in queues, and queues[merges + 1] is the
\* queue of the loop after merges iterations
StartMerging ==
  /\ call = Idle
  /\ \E k \in 1..MaxScripts :
       \E scripts \in {[i \in 1..k |-> <<1, i, 172>>], [i \in 1..k |-> <<81>>]},
          weights \in [1..k -> {<<>>} \cup {<<w>> : w \in 1..MaxWeight}] :
         /\ call' = [fn |-> "mergeLoop", scripts |-> scripts, weights |-> weights,
                     queues |-> loopQueues(addLeaves(<<>>, scripts, weights, 0).val,
                                           MaxScripts),
                     merges |-> 0, returned |-> FALSE]
         /\ ret' = Ret(Undefined)

\* one iteration of while (queue.size > 1)
MergeStep ==
  /\ call.fn = "mergeLoop"
  /\ ~call.returned
  /\ Len(call.queues[call.merges + 1]) > 1
  /\ call.merges + 1 < Len(call.queues)
  /\ call' = [call EXCEPT !.merges = @ + 1]
  /\ ret' = Ret(Undefined)

\* the loop is left: the last poll and the result
ReturnRoot ==
  /\ call.fn = "mergeLoop"
  /\ ~call.returned
  /\ ~(Len(call.queues[call.merges + 1]) > 1)
  /\ call' = [call EXCEPT !.returned = TRUE]
  /\ ret' = Ret(taptreeOf(call.queues[call.merges + 1][1], Len(call.scripts)))

NextMerging == StartMerging \/ MergeStep \/ ReturnRoot

\* the loop is sequential code that runs to its end once the leaves are
\* queued
SpecMerging ==
  Init /\ [][NextMerging]_vars /\ WF_vars(MergeStep) /\ WF_vars(ReturnRoot)

(***************************************************************************)
(* payments/p2ns                                                           *)
(***************************************************************************)
\* bscript.isCanonicalSchnorrSignature: a buffer of the length of a BIP340
\* signature
isCanonicalSchnorrSignature(x) == ~IsOp(x) /\ Len(x) = 64

\* canonical || (opts.allowIncomplete && x === OPS.OP_0) !== undefined: the
\* comparison with undefined binds tighter than ||, and false and true both
\* differ from undefined
isAcceptableSignature(x, opts) ==
  isCanonicalSchnorrSignature(x) \/ opts.allowIncomplete # "undefined"

\* stacksEqual: x.equals(b[i]) in order, up to the first mismatch; a number
\* has no equals and is no argument of Buffer.equals
stacksEqual(a, b) ==
  IF Len(a) # Len(b) THEN Ret(FALSE)
  ELSE LET stops == {i \in 1..Len(a) : IsOp(a[i]) \/ IsOp(b[i]) \/ a[i] # b[i]}
           first == CHOOSE i \in stops : \A j \in stops : i <= j
       IN  IF stops = {} THEN Ret(TRUE)
           ELSE IF IsOp(a[first]) THEN Throw("x.equals is not a function")
           ELSE IF IsOp(b[first]) THEN Throw("argument must be a buffer")
           ELSE Ret(FALSE)

\* typef(...): the property that fails its type, "" when none does
typeforceFailure(a, opts) ==
  IF a.pubkeys.has /\ \E i \in 1..Len(a.pubkeys.v) : ~isPoint(a.pubkeys.v[i])
  THEN "pubkeys"
  ELSE IF a.signatures.has
          /\ \E i \in 1..Len(a.signatures.v) :
               ~isAcceptableSignature(a.signatures.v[i], opts)
  THEN "signatures"
  ELSE ""

\* the chunks of the output with OP_CHECKSIG after every key
outputChunksAllChecksig(pubkeys) ==
  [i \in 1..2 * Len(pubkeys) |->
     IF i % 2 = 1 THEN pubkeys[(i + 1) \div 2] ELSE Op(OP_CHECKSIG)]

\* [pk, i !== pks.length - 1 ? OPS.OP_CHECKSIGVERIFY : OPS.OP_CHECKSIG]
\* concatenated over the keys
outputChunks(pubkeys) ==
  [i \in 1..2 * Len(pubkeys) |->
     IF i % 2 = 1 THEN pubkeys[(i + 1) \div 2]
     ELSE IF i = 2 * Len(pubkeys) THEN Op(OP_CHECKSIG)
     ELSE Op(OP_CHECKSIGVERIFY)]

\* chunks.filter((_, index) => index % 2 === 0)
evenChunks(chunks) ==
  [i \in 1..(Len(chunks) + 1) \div 2 |-> chunks[2 * i - 1]]

\* the lazy property output
lazyOutput(a) ==
  IF ~a.pubkeys.has THEN Absent ELSE Present(compile(outputChunks(a.pubkeys.v)))

\* decode(a.output): the pubkeys, or the TypeError of chunks.filter on null
decode(decompiled) ==
  IF ~decompiled.has THEN Throw("Cannot read property 'filter' of null")
  ELSE Ret(Present(evenChunks(decompiled.v)))

\* the lazy property pubkeys
lazyPubkeys(a) ==
  IF ~a.output.has THEN Ret(Absent) ELSE decode(decompile(a.output.v))

\* the lazy property n, read from o.pubkeys
lazyN(pubkeys) ==
  IF pubkeys.thrown THEN pubkeys
  ELSE IF ~pubkeys.val.has THEN Ret(Absent)
  ELSE Ret(Present(Len(pubkeys.val.v)))

\* the lazy property signatures; decompile may return null, here the
\* falsy value that holds Null
lazySignatures(a) ==
  IF ~a.input.has THEN Absent
  ELSE IF ~decompile(a.input.v).has THEN [has |-> FALSE, v |-> <<Null>>]
  ELSE decompile(a.input.v)

\* the lazy property input
lazyInput(a) ==
  IF ~a.signatures.has THEN Absent ELSE Present(compile(a.signatures.v))

\* if (a.output) { ... }: the error of the output checks, "" when they pass
outputFailureOf(a, chunks, matches) ==
  IF Len(chunks) = 0 THEN "Output is invalid"
  ELSE IF ~IsOp(chunks[1]) THEN "Output is invalid"
  ELSE IF chunks[Len(chunks)] # Op(OP_CHECKSIG) THEN "Output is invalid"
  ELSE IF Len(evenChunks(chunks)) > 16 \/ 2 * Len(evenChunks(chunks)) # Len(chunks)
  THEN "Output is invalid"
  ELSE IF \E i \in 1..Len(evenChunks(chunks)) : ~isPoint(evenChunks(chunks)[i])
  THEN "Output is invalid"
  ELSE IF ~a.pubkeys.has THEN ""
  ELSE IF matches.thrown THEN matches.val
  ELSE IF ~matches.val THEN "Pubkeys mismatch"
  ELSE ""

outputFailure(a) ==
  IF ~a.output.has THEN ""
  ELSE IF ~decompile(a.output.v).has THEN "Cannot read property 'filter' of null"
  ELSE outputFailureOf(a, decompile(a.output.v).v,
         IF a.pubkeys.has
         THEN stacksEqual(a.pubkeys.v, evenChunks(decompile(a.output.v).v))
         ELSE Ret(TRUE))

\* o.n where the signatures are counted: a.pubkeys.length, or the lazy n
countedN(a) ==
  IF a.pubkeys.has THEN Present(Len(a.pubkeys.v)) ELSE lazyN(lazyPubkeys(a)).val

\* if (a.signatures) { ... }: a comparison with an undefined n is false
signaturesFailure(a, count) ==
  IF ~a.signatures.has \/ ~count.has THEN ""
  ELSE IF Len(a.signatures.v) < count.v THEN "Not enough signatures provided"
  ELSE IF Len(a.signatures.v) > count.v THEN "Too many signatures provided"
  ELSE ""

\* if (a.input) { ... }
inputFailureOf(a, opts, count, signatures, matches) ==
  IF ~signatures.has THEN "Cannot read property 'length' of null"
  ELSE IF Len(signatures.v) = 0
          \/ \E i \in 1..Len(signatures.v) :
               ~isAcceptableSignature(signatures.v[i], opts)
  THEN "Input has invalid signature(s)"
  ELSE IF ~a.signatures.has THEN "Cannot read property 'length' of undefined"
  ELSE IF matches.thrown THEN matches.val
  ELSE IF ~matches.val THEN "Signature mismatch"
  ELSE IF ~count.has THEN "Signature count mismatch"
  ELSE IF count.v # Len(a.signatures.v) THEN "Signature count mismatch"
  ELSE ""

inputFailure(a, opts) ==
  IF ~a.input.has THEN ""
  ELSE inputFailureOf(a, opts, countedN(a), lazySignatures(a),
         IF a.signatures.has /\ lazySignatures(a).has
         THEN stacksEqual(a.signatures.v, lazySignatures(a).v)
         ELSE Ret(TRUE))

\* if (opts.validate) { ... }: the first error, "" when there is none
validationFailure(a, opts) ==
  IF outputFailure(a) # "" THEN outputFailure(a)
  ELSE IF signaturesFailure(a, countedN(a)) # ""
  THEN signaturesFailure(a, countedN(a))
  ELSE inputFailure(a, opts)

\* Object.assign(o, a): the value of every property of the Payment when
\* it is read; name stands for `p2ns(${o.n})` and holds n
assigned(a, pubkeys, input) ==
  [output |-> IF a.output.has THEN a.output ELSE lazyOutput(a),
   pubkeys |-> pubkeys,
   n |-> lazyN(pubkeys),
   signatures |-> IF a.signatures.has THEN a.signatures ELSE lazySignatures(a),
   input |-> input,
   witness |-> IF input.has THEN Present(<<>>) ELSE Absent,
   name |-> IF lazyN(pubkeys).thrown THEN lazyN(pubkeys)
            ELSE IF lazyN(pubkeys).val.has /\ lazyN(pubkeys).val.v # 0
            THEN lazyN(pubkeys)
            ELSE Ret(Absent)]

\* p2ns running the extended validation whatever opts.validate is
p2nsAlwaysValidating(a, opts) ==
  IF ~a.input.has /\ ~a.output.has /\ ~a.pubkeys.has /\ ~a.signatures.has
  THEN Throw("Not enough data")
  ELSE IF typeforceFailure(a, opts) # ""
  THEN Throw("Expected property " \o typeforceFailure(a, opts))
  ELSE IF validationFailure(a, opts) # ""
  THEN Throw(validationFailure(a, opts))
  ELSE Ret(assigned(a,
             IF a.pubkeys.has THEN Ret(a.pubkeys) ELSE lazyPubkeys(a),
             IF a.input.has THEN a.input ELSE lazyInput(a)))

\* p2ns(a, opts)
p2ns(a, opts) ==
  IF ~a.input.has /\ ~a.output.has /\ ~a.pubkeys.has /\ ~a.signatures.has
  THEN Throw("Not enough data")
  ELSE IF typeforceFailure(a, opts) # ""
  THEN Throw("Expected property " \o typeforceFailure(a, opts))
  ELSE IF opts.validate /\ validationFailure(a, opts) # ""
  THEN Throw(validationFailure(a, opts))
  ELSE Ret(assigned(a,
             IF a.pubkeys.has THEN Ret(a.pubkeys) ELSE lazyPubkeys(a),
             IF a.input.has THEN a.input ELSE lazyInput(a)))

(***************************************************************************)
(* Specification of p2ns: one call per behaviour step                      *)
(***************************************************************************)
\* compressed public keys
PaymentKeys == {encodePoint(PointMul(G, k)) : k \in 1..2}

\* a canonical signature
SomeSignature == toBuffer(5) \o toBuffer(9)

\* p2ns on pubkeys (no key, a buffer that is no point, or 1..MaxKeys keys),
\* an output (of the keys, of OP_1 OP_CHECKSIG, of OP_1 OP_CHECKSIGVERIFY,
\* or one that does not decompile), signatures (canonical ones, or the same with OP_0 or a
\* one-byte buffer in the first place) and an input (of one signature, of
\* OP_0, of a one-byte push, empty, or one that does not decompile);
\* validate defaults to true, allowIncomplete to undefined
Construct ==
  /\ call = Idle
  /\ \E keys \in {<<>>, <<<<2>> \o ZERO32>>}
                  \cup {[i \in 1..k |-> IF i = 1 THEN first ELSE encodePoint(G)] :
                          k \in 1..MaxKeys, first \in PaymentKeys},
        opts \in [validate : BOOLEAN,
                  allowIncomplete : {"undefined", "false", "true"}],
        count \in 0..MaxKeys + 1 :
       \E pubkeys \in {Absent, Present(keys)},
          output \in {Absent, Present(compile(outputChunks(keys))),
                      Present(<<81, 172>>), Present(<<81, 173>>),
                      Present(<<2, 1>>)},
          signatures \in IF count = 0 THEN {Absent, Present(<<>>)}
                         ELSE {Present([i \in 1..count |->
                                          IF i = 1 THEN first
                                          ELSE SomeSignature]) :
                                 first \in {SomeSignature, Op(OP_0), <<99>>}},
          input \in {Absent, Present(compile(<<SomeSignature>>)),
                     Present(compile(<<Op(OP_0)>>)), Present(compile(<<<<99>>>>)),
                     Present(<<>>), Present(<<2, 1>>)} :
         /\ call' = [fn |-> "p2ns", keys |-> keys, opts |-> opts,
                     a |-> [pubkeys |-> pubkeys, output |-> output,
                            signatures |-> signatures, input |-> input]]
         /\ ret' = p2ns(call'.a, opts)

\* p2ns({pubkeys}), then p2ns({output}) of the output of the first Payment
DeriveFromOutput ==
  /\ call = Idle
  /\ \E k \in 1..MaxKeys, validate \in BOOLEAN :
       \E keys \in [1..k -> PaymentKeys] :
         /\ call' = [fn |-> "deriveFromOutput", pubkeys |-> keys,
                     validate |-> validate,
                     first |-> p2ns([pubkeys |-> Present(keys), output |-> Absent,
                                     signatures |-> Absent, input |-> Absent],
                                    [validate |-> TRUE,
                                     allowIncomplete |-> "undefined"])]
         /\ ret' = p2ns([pubkeys |-> Absent, output |-> call'.first.val.output,
                         signatures |-> Absent, input |-> Absent],
                        [validate |-> validate, allowIncomplete |-> "undefined"])

\* p2ns({pubkeys, signatures}), then p2ns({input}) of the input of the
\* first Payment
DeriveFromInput ==
  /\ call = Idle
  /\ \E k \in 1..MaxKeys, validate \in BOOLEAN :
       \E keys \in [1..k -> PaymentKeys],
          signatures \in [1..k -> {SomeSignature, toBuffer(7) \o toBuffer(3)}] :
         /\ call' = [fn |-> "deriveFromInput", pubkeys |-> keys,
                     signatures |-> signatures, validate |-> validate,
                     first |-> p2ns([pubkeys |-> Present(keys), output |-> Absent,
                                     signatures |-> Present(signatures),
                                     input |-> Absent],
                                    [validate |-> TRUE,
                                     allowIncomplete |-> "undefined"])]
         /\ ret' = p2ns([pubkeys |-> Absent, output |-> Absent,
                         signatures |-> Absent, input |-> call'.first.val.input],
                        [validate |-> validate, allowIncomplete |-> "undefined"])

\* decode(a.output) decompiling the output whether or not it was decoded
decodeIntoUnflagged(o) ==
  IF ~decompile(o.a.output.v).has
  THEN [o |-> [o EXCEPT !.decoded = TRUE, !.decompiles = @ + 1],
        out |-> Throw("Cannot read property 'filter' of null")]
  ELSE [o |-> [o EXCEPT !.decoded = TRUE, !.decompiles = @ + 1,
                        !.slots["pubkeys"] =
                          <<Present(evenChunks(decompile(o.a.output.v).v))>>],
        out |-> Ret(Absent)]

\* decode(a.output) on the Payment o: o.slots holds <<>> for a property that
\* is still a getter and <<value>> for one that holds a value, decompiles
\* counts the calls of bscript.decompile on the output; decoded is set
\* before the output is decompiled
decodeInto(o) ==
  IF o.decoded THEN [o |-> o, out |-> Ret(Absent)]
  ELSE IF ~decompile(o.a.output.v).has
  THEN [o |-> [o EXCEPT !.decoded = TRUE, !.decompiles = @ + 1],
        out |-> Throw("Cannot read property 'filter' of null")]
  ELSE [o |-> [o EXCEPT !.decoded = TRUE, !.decompiles = @ + 1,
                        !.slots["pubkeys"] =
                          <<Present(evenChunks(decompile(o.a.output.v).v))>>],
        out |-> Ret(Absent)]

\* a read of o[name].  A property that holds a value returns it; a getter
\* runs f and, by this[name] = value of lazy.prop, turns the property into
\* a value (got); runs counts the values computed.  The pubkeys getter
\* returns o.pubkeys: after a decode that returned without assigning it (an
\* earlier decode threw), that read enters the same getter without end
RECURSIVE readProperty(_, _)
readProperty(o, name) ==
  LET got(oo, value) ==
        [o |-> [oo EXCEPT !.slots[name] = <<value>>, !.runs[name] = @ + 1],
         out |-> Ret(value)]
  IN
  IF o.slots[name] # <<>> THEN [o |-> o, out |-> Ret(o.slots[name][1])]
  ELSE IF name = "output" THEN got(o, lazyOutput(o.a))
  ELSE IF name = "signatures" THEN got(o, lazySignatures(o.a))
  ELSE IF name = "input" THEN got(o, lazyInput(o.a))
  ELSE IF name = "pubkeys"
  THEN IF ~o.a.output.has THEN got(o, Absent)
       ELSE IF decodeInto(o).out.thrown THEN decodeInto(o)
       ELSE IF decodeInto(o).o.slots[name] = <<>>
       THEN [o |-> decodeInto(o).o,
             out |-> Throw("Maximum call stack size exceeded")]
       ELSE got(decodeInto(o).o, decodeInto(o).o.slots[name][1])
  ELSE IF name = "n"
  THEN LET p == readProperty(o, "pubkeys")
       IN  IF p.out.thrown THEN p
           ELSE got(p.o, IF p.out.val.has THEN Present(Len(p.out.val.v))
                         ELSE Absent)
  ELSE IF name = "witness"
  THEN LET i == readProperty(o, "input")
       IN  got(i.o, IF i.out.val.has THEN Present(<<>>) ELSE Absent)
  ELSE LET c == readProperty(o, "n")
       IN  IF c.out.thrown THEN c
           ELSE got(c.o, IF c.out.val.has /\ c.out.val.v # 0 THEN c.out.val
                         ELSE Absent)

\* bound: completed computations of one property and decompilations of one
\* output after which no further read is taken
MaxRuns == 2

\* p2ns on pubkeys (none, or one key), an output (of one key, or one
\* that does not decompile), signatures and an input (of the signature, or
\* one that does not decompile), with and without validation.  o is the
\* Payment under construction after the reads and the assignment to o.n of
\* the extended validation and after Object.assign(o, a); firsts holds the
\* outcome of the first read of a property, from the validation on
Instantiate ==
  /\ call = Idle
  /\ \E pubkeys \in {Absent, Present(<<>>), Present(<<encodePoint(G)>>)},
        output \in {Absent, Present(compile(outputChunks(<<encodePoint(G)>>))),
                    Present(<<2, 1>>)},
        signatures \in {Absent, Present(<<SomeSignature>>)},
        input \in {Absent, Present(compile(<<SomeSignature>>)), Present(<<2, 1>>)},
        validate \in BOOLEAN :
       LET a == [pubkeys |-> pubkeys, output |-> output,
                 signatures |-> signatures, input |-> input]
           fresh == [a |-> a,
                     slots |-> [f \in {"output", "pubkeys", "n", "signatures",
                                       "input", "witness", "name"} |-> <<>>],
                     decoded |-> FALSE, decompiles |-> 0,
                     runs |-> [f \in {"output", "pubkeys", "n", "signatures",
                                      "input", "witness", "name"} |-> 0],
                     firsts |-> [f \in {"output", "pubkeys", "n", "signatures",
                                        "input", "witness", "name"} |-> <<>>]]
           first(oo, prop) ==
             IF oo.firsts[prop] # <<>> THEN readProperty(oo, prop).o
             ELSE [readProperty(oo, prop).o EXCEPT
                     !.firsts[prop] = <<readProperty(oo, prop).out>>]
           v1 == IF validate /\ output.has
                 THEN first(decodeInto(fresh).o, "n")
                 ELSE fresh
           v2 == IF validate /\ pubkeys.has
                 THEN [v1 EXCEPT !.slots["n"] = <<Present(Len(pubkeys.v))>>]
                 ELSE v1
           v3 == IF validate /\ signatures.has THEN first(v2, "n") ELSE v2
           v4 == IF validate /\ input.has
                 THEN first(first(v3, "signatures"), "n")
                 ELSE v3
       IN  /\ ret' = p2ns(a, [validate |-> validate,
                              allowIncomplete |-> "undefined"])
           /\ call' = [fn |-> "instantiate",
                       o |-> IF ret'.thrown THEN fresh
                             ELSE [v4 EXCEPT !.slots =
                                     [f \in DOMAIN v4.slots |->
                                        IF f \in {"output", "pubkeys",
                                                  "signatures", "input"}
                                           /\ a[f].has
                                        THEN <<a[f]>>
                                        ELSE v4.slots[f]]]]

\* one read of a property of the Payment that the last call returned or
\* that was read before
ReadProperty ==
  /\ call.fn \in {"instantiate", "read"}
  /\ call.fn = "instantiate" => ~ret.thrown
  /\ call.o.decompiles < MaxRuns
  /\ \A f \in DOMAIN call.o.runs : call.o.runs[f] < MaxRuns
  /\ \E name \in DOMAIN call.o.slots :
       /\ call' = [fn |-> "read", name |-> name,
                   again |-> call.o.firsts[name] # <<>>,
                   o |-> IF call.o.firsts[name] # <<>>
                         THEN readProperty(call.o, name).o
                         ELSE [readProperty(call.o, name).o EXCEPT
                                 !.firsts[name] = <<readProperty(call.o, name).out>>]]
       /\ ret' = readProperty(call.o, name).out

NextP2ns ==
  \/ Construct
  \/ DeriveFromOutput
  \/ DeriveFromInput
  \/ Instantiate
  \/ ReadProperty
  \/ Return

SpecP2ns == Init /\ [][NextP2ns]_vars

WellFormedKey ==
  call.qlen = 32 /\ call.qv < FIELD_P /\ HasPointAtX(call.qv)

\* the signature of a verify call has 64 bytes and both halves are below
\* GROUP_N
WellFormedSignature ==
  call.siglen = 64 /\ call.rv < GROUP_N /\ call.sv < GROUP_N

\* C2 (as claimed): verifySchnorr returns false and never throws when the
\* signature is malformed or the pubkey is not a valid x-only point.
C2_Original ==
  (call.fn = "verify" /\ ~(WellFormedKey /\ WellFormedSignature)) =>
    (~ret.thrown /\ ret.val = FALSE)

\* C2 (amended): verifySchnorr throws 'Expected Point' when the pubkey is
\* not a valid x-only point, throws 'Expected Signature' when the pubkey is
\* valid and the signature is malformed, and returns a boolean only when
\* both are well formed.
C2_MalformedThrows ==
  call.fn = "verify" =>
    /\ ~WellFormedKey => ret = Throw("Expected Point")
    /\ (WellFormedKey /\ ~WellFormedSignature) => ret = Throw("Expected Signature")
    /\ (WellFormedKey /\ WellFormedSignature) => ~ret.thrown

\* a 64-byte signature whose r half lies in [GROUP_N, FIELD_P) was rejected
\* under a valid key
C2_Witness ==
  /\ call.fn = "verify"
  /\ WellFormedKey
  /\ call.siglen = 64
  /\ call.rv >= GROUP_N
  /\ call.rv < FIELD_P
  /\ call.sv < GROUP_N
  /\ ret = Throw("Expected Signature")

(***************************************************************************)
(* C3: isValidTapscript on a malformed witness                             *)
(***************************************************************************)
\* the parse failures of a ValidateWitness call, from the way the witness
\* was built
ScriptFails == call.script \in MalformedScripts

LengthFails ==
  call.cbLen < 33 \/ call.cbLen > 33 + 32 * 128 \/ call.cbLen % 32 # 1

KeyFails == call.keyv = 0 \/ call.keyv >= FIELD_P \/ ~HasPointAtX(call.keyv)

VersionFails == call.first = 80 \/ call.first = 81

ParseFails == ScriptFails \/ LengthFails \/ KeyFails \/ VersionFails

\* C3 (as claimed): whenever parseTaprootWitness would fail on the stack,
\* isValidTapscript does not throw and returns false.
C3_Original ==
  (call.fn = "isValidTapscript" /\ ParseFails) =>
    (~ret.thrown /\ ret.val = FALSE)

\* C3 (amended): whenever parseTaprootWitness fails on the stack,
\* isValidTapscript throws that parse error (invalid tapscript, control
\* block length, internal key, leaf version, tested in this order); it is
\* isScriptPathSpend that reports the failure as false.
C3_ParseFailureThrows ==
  (call.fn = "isValidTapscript" /\ ParseFails) =>
    /\ ret.thrown
    /\ ret.val = (CASE ScriptFails -> "tapscript is not a valid script"
                    [] ~ScriptFails /\ LengthFails -> "invalid control block length"
                    [] ~ScriptFails /\ ~LengthFails /\ KeyFails ->
                         "internal pubkey is not an EC point"
                    [] OTHER -> "invalid leaf version")
    /\ ~call.scriptPathSpend

\* a witness whose only defect is the leaf version 0x50 was rejected by a
\* throw
C3_Witness ==
  /\ call.fn = "isValidTapscript"
  /\ VersionFails
  /\ ~ScriptFails
  /\ ~LengthFails
  /\ ~KeyFails
  /\ ret = Throw("invalid leaf version")

(***************************************************************************)
(* C4: Payment derivation consistency                                      *)
(***************************************************************************)
\* C4: for every list of n valid public keys, building p2ns({pubkeys}),
\* reading its output, then building a fresh p2ns({output}) with validation
\* on succeeds, and reading pubkeys from the second Payment yields the
\* original key list in the original order.
C4_Original ==
  (call.fn = "deriveFromOutput" /\ call.validate) =>
    (~ret.thrown /\ ret.val.pubkeys = Ret(Present(call.pubkeys)))

(***************************************************************************)
(* C5: removeAnnex applied twice                                           *)
(***************************************************************************)
StartsWithAnnexMarker(element) == Len(element) > 0 /\ element[1] = 80

\* the stack keeps an annex-like element after one is removed
TwoTrailingAnnexes(stack) ==
  /\ Len(stack) >= 3
  /\ StartsWithAnnexMarker(stack[Len(stack)])
  /\ StartsWithAnnexMarker(stack[Len(stack) - 1])

\* C5 (as claimed): for every witness stack,
\* removeAnnex(removeAnnex(stack)) equals removeAnnex(stack).
C5_Original ==
  call.fn = "removeAnnex" => ret.val[2] = ret.val[1]

\* C5 (amended): removeAnnex(removeAnnex(stack)) equals removeAnnex(stack)
\* exactly for the stacks that do not have three or more elements with the
\* last two both starting with byte 0x50; on those the second application
\* removes one more element.
C5_IdempotentUnlessTwoAnnexes ==
  call.fn = "removeAnnex" =>
    /\ ~TwoTrailingAnnexes(call.stack) => ret.val[2] = ret.val[1]
    /\ TwoTrailingAnnexes(call.stack) =>
         (Len(ret.val[1]) = Len(call.stack) - 1
          /\ Len(ret.val[2]) = Len(call.stack) - 2)

\* a two-element stack of annex-like elements lost its last element once,
\* and only once
C5_Witness ==
  /\ call.fn = "removeAnnex"
  /\ Len(call.stack) = 2
  /\ StartsWithAnnexMarker(call.stack[1])
  /\ StartsWithAnnexMarker(call.stack[2])
  /\ ret.val[1] = <<call.stack[1]>>
  /\ ret.val[2] = ret.val[1]

(***************************************************************************)
(* C6: every leaf of a Huffman taptree validates with its control block    *)
(***************************************************************************)
\* C6: for any ordering of the scripts and any positive weights, with
\* {root, paths} = getHuffmanTaptree(scripts, weights) and {parity, pubkey}
\* = tapTweakPubkey(internalKey, root), isValidTapscript([scripts[i],
\* getControlBlock(parity, internalKey, paths[i])], pubkey) returns true for
\* every leaf index i.
C6_LeavesValidate ==
  (call.fn = "spendLeaves" /\ ~call.tree.thrown /\ ~call.tweaked.thrown) =>
    \A i \in 1..Len(call.scripts) :
      ~call.valid[i].thrown /\ call.valid[i].val = TRUE

\* three different scripts with different weights, leaves at different
\* depths, all validated
C6_Witness ==
  /\ call.fn = "spendLeaves"
  /\ Len(call.scripts) = 3
  /\ Cardinality({call.scripts[i] : i \in 1..3}) = 3
  /\ ~call.tree.thrown
  /\ ~call.tweaked.thrown
  /\ \E i, j \in 1..3 : Len(call.tree.val.paths[i]) # Len(call.tree.val.paths[j])
  /\ \A i \in 1..3 : ~call.valid[i].thrown /\ call.valid[i].val = TRUE

(***************************************************************************)
(* C7: the taptree root under permutation of equally weighted scripts      *)
(***************************************************************************)
\* C7 (as claimed): for scripts that all have equal weights,
\* getHuffmanTaptree returns the same root for every permutation of the
\* script list, for every list length.
C7_Original ==
  call.fn = "permuteScripts" => ret.val.root = call.other.val.root

\* C7 (amended): for scripts that all have equal weights, getHuffmanTaptree
\* returns the same root for every permutation of a list of one or two
\* scripts; for three or more scripts the root depends on the input order.
C7_RootStableUpToTwo ==
  (call.fn = "permuteScripts" /\ Len(call.scripts) <= 2) =>
    ret.val.root = call.other.val.root

\* two different scripts, swapped, gave the same root
C7_Witness ==
  /\ call.fn = "permuteScripts"
  /\ Len(call.scripts) = 2
  /\ call.scripts[1] # call.scripts[2]
  /\ call.permuted = <<call.scripts[2], call.scripts[1]>>
  /\ ret.val.root = call.other.val.root

(***************************************************************************)
(* C8: aggregation is independent of the order of the keys                 *)
(***************************************************************************)
\* C8: for every list of at least two x-only public keys,
\* aggregateMuSigPubkeys has the same outcome, and returns the same 32-byte
\* key, for every permutation of the list.
C8_OrderIndependent ==
  (call.fn = "aggregate" /\ Len(call.pubkeys) >= 2) =>
    (ret.thrown = call.other.thrown /\ ret.val = call.other.val)

\* three different keys in two different orders aggregated to the same
\* 32-byte key
C8_Witness ==
  /\ call.fn = "aggregate"
  /\ Len(call.pubkeys) = 3
  /\ Cardinality({call.pubkeys[i] : i \in 1..3}) = 3
  /\ call.permuted # call.pubkeys
  /\ ~ret.thrown
  /\ Len(ret.val) = 32
  /\ ret.val = call.other.val

(***************************************************************************)
(* C9: the failures of getHuffmanTaptree                                   *)
(***************************************************************************)
\* C9: getHuffmanTaptree fails when zero scripts are given and fails when
\* any supplied weight is <= 0 (weight 0 and negative weights); an
\* undefined weight is treated as 1.
C9_WeightChecks ==
  call.fn = "getHuffmanTaptree" =>
    /\ Len(call.scripts) = 0 =>
         ret = Throw("at least one script is required to construct a tap tree")
    /\ (\E i \in 1..Len(call.weights) :
          call.weights[i] # <<>> /\ call.weights[i][1] <= 0) =>
         ret = Throw("script weight must be a positive value")
    /\ (Len(call.scripts) > 0
        /\ \A i \in 1..Len(call.weights) :
             call.weights[i] # <<>> => call.weights[i][1] > 0) =>
         (~ret.thrown /\ ~call.asOnes.thrown /\ ret.val = call.asOnes.val)

(***************************************************************************)
(* C10: the number of signatures                                           *)
(***************************************************************************)
\* a p2ns call with validation on, valid keys given as pubkeys, as the
\* output of these keys, or both, canonical signatures and no input
CountsSignatures ==
  /\ call.fn = "p2ns"
  /\ call.opts.validate
  /\ Len(call.keys) >= 1
  /\ \A i \in 1..Len(call.keys) : call.keys[i] \in PaymentKeys
  /\ call.a.pubkeys.has \/ call.a.output.has
  /\ call.a.output.has => call.a.output.v = compile(outputChunks(call.keys))
  /\ call.a.signatures.has
  /\ \A i \in 1..Len(call.a.signatures.v) : call.a.signatures.v[i] = SomeSignature
  /\ ~call.a.input.has

\* C10: with validation on and the key count n known (from pubkeys or from
\* output), fewer than n signatures fail with 'Not enough signatures
\* provided', more than n fail with 'Too many signatures provided', with
\* and without allowIncomplete, and exactly n signatures pass.
C10_Original ==
  CountsSignatures =>
    /\ Len(call.a.signatures.v) < Len(call.keys) =>
         ret = Throw("Not enough signatures provided")
    /\ Len(call.a.signatures.v) > Len(call.keys) =>
         ret = Throw("Too many signatures provided")
    /\ Len(call.a.signatures.v) = Len(call.keys) => ~ret.thrown

(***************************************************************************)
(* C11: the control block lengths that parseTaprootWitness accepts         *)
(***************************************************************************)
\* C11: on a witness that is well formed apart from the length L of its
\* control block, parseTaprootWitness succeeds exactly when 33 <= L <=
\* 33 + 32*128 and L mod 32 = 1, fails with 'invalid control block length'
\* otherwise, and reports taptreeDepth = (L - 33) / 32 for every accepted L.
C11_ControlBlockLength ==
  /\ (call.fn = "isValidTapscript" /\ ~ScriptFails /\ ~KeyFails /\ ~VersionFails) =>
       /\ call.parsed.thrown <=>
            ~(33 <= call.cbLen /\ call.cbLen <= 33 + 32 * 128
              /\ call.cbLen % 32 = 1)
       /\ call.parsed.thrown => call.parsed.val = "invalid control block length"
       /\ ~call.parsed.thrown =>
            32 * call.parsed.val.taptreeDepth = call.cbLen - 33
  /\ call.fn = "parseControlBlock" =>
       /\ ~ret.thrown
       /\ 32 * ret.val.taptreeDepth = Len(ret.val.controlBlock) - 33
       /\ Len(ret.val.controlBlock) = 33 + 32 * Len(call.path)

\* a control block of 65 bytes was parsed with depth 1
C11_Witness ==
  /\ call.fn = "isValidTapscript"
  /\ call.cbLen = 65
  /\ ~call.parsed.thrown
  /\ call.parsed.val.taptreeDepth = 1

(***************************************************************************)
(* C12: control block round trip                                           *)
(***************************************************************************)
\* C12: for every parity, valid internal key and path of sibling hashes,
\* parseTaprootWitness on [tapscript, getControlBlock(parity, key, path)]
\* succeeds with internalPubkey = key, taptreeDepth = the length of the
\* path, the 32-byte slices after byte 33 equal to the path in order, leaf
\* version 0xc0, and the parity in the lowest bit of the first byte.
C12_ControlBlockRoundTrip ==
  call.fn = "parseControlBlock" =>
    /\ ~ret.thrown
    /\ ret.val.internalPubkey = call.pubkey
    /\ ret.val.taptreeDepth = Len(call.path)
    /\ \A j \in 1..Len(call.path) :
         Slice(ret.val.controlBlock, 33 + 32 * (j - 1), 65 + 32 * (j - 1))
           = call.path[j]
    /\ ret.val.leafVersion = 192
    /\ ret.val.controlBlock[1] % 2 = call.parity

\* a path of two different hashes was recovered with parity 1
C12_Witness ==
  /\ call.fn = "parseControlBlock"
  /\ call.parity = 1
  /\ Len(call.path) = 2
  /\ call.path[1] # call.path[2]
  /\ ~ret.thrown
  /\ ret.val.taptreeDepth = 2
  /\ Slice(ret.val.controlBlock, 65, 97) = call.path[2]

(***************************************************************************)
(* C13: the signatures decoded from input                                  *)
(***************************************************************************)
\* the element is a canonical signature, or the OP_0 placeholder while
\* allowIncomplete is true
AcceptableAsClaimed(x) ==
  \/ isCanonicalSchnorrSignature(x)
  \/ (x = Op(OP_0) /\ call.opts.allowIncomplete = "true")

\* C13: with validation on and an input that decompiles, p2ns throws
\* whenever the input decompiles to zero elements or to an element that is
\* neither a canonical Schnorr signature nor OP_0 with allowIncomplete true.
C13_Original ==
  (call.fn = "p2ns" /\ call.opts.validate /\ call.a.input.has
   /\ decompile(call.a.input.v).has) =>
    ((Len(decompile(call.a.input.v).v) = 0
      \/ \E i \in 1..Len(decompile(call.a.input.v).v) :
           ~AcceptableAsClaimed(decompile(call.a.input.v).v[i]))
     => ret.thrown)

(***************************************************************************)
(* C14: signatures/input round trip                                        *)
(***************************************************************************)
\* C14: for every non-empty list of canonical Schnorr signatures, the input
\* of p2ns({pubkeys, signatures}) given alone to a fresh p2ns with default
\* validation constructs a Payment, and its signatures are the original
\* list.
C14_Original ==
  (call.fn = "deriveFromInput" /\ call.validate) =>
    (~ret.thrown /\ ret.val.signatures = Present(call.signatures))

(***************************************************************************)
(* C15: validation disabled                                                *)
(***************************************************************************)
\* the arguments of a p2ns call pass the unconditional checks: some property
\* is given, the pubkeys are points and the signatures are acceptable
PassesTypeChecks ==
  /\ call.a.input.has \/ call.a.output.has \/ call.a.pubkeys.has
     \/ call.a.signatures.has
  /\ call.a.pubkeys.has =>
       \A i \in 1..Len(call.a.pubkeys.v) : isPoint(call.a.pubkeys.v[i])
  /\ call.a.signatures.has =>
       \A i \in 1..Len(call.a.signatures.v) :
         isAcceptableSignature(call.a.signatures.v[i], call.opts)

\* C15: with opts.validate = false, p2ns constructs a Payment without
\* throwing whenever the unconditional type checks pass, whatever the
\* output ends with, whether or not pubkeys match the output, whatever the
\* number of signatures, and whether or not signatures match the input.
C15_NoSemanticValidation ==
  (call.fn = "p2ns" /\ ~call.opts.validate /\ PassesTypeChecks) => ~ret.thrown

\* with validation off a Payment was constructed from an output that ends
\* with OP_CHECKSIGVERIFY, pubkeys that are not those of the output, more
\* signatures than keys, and signatures that are not those of the input
C15_Witness ==
  /\ call.fn = "p2ns"
  /\ ~call.opts.validate
  /\ call.a.output = Present(<<81, 173>>)
  /\ call.a.pubkeys.has
  /\ Len(call.a.pubkeys.v) = 1
  /\ isPoint(call.a.pubkeys.v[1])
  /\ call.a.signatures = Present(<<SomeSignature, SomeSignature>>)
  /\ call.a.input = Present(compile(<<<<99>>>>))
  /\ ~ret.thrown

(***************************************************************************)
(* C16: the layout of the output script                                    *)
(***************************************************************************)
\* the elements at the even 0-based indices of a list
EvenIndexed(list) == [i \in 1..(Len(list) + 1) \div 2 |-> list[2 * i - 1]]

\* the Payment returned from an output alone has the even-indexed elements
\* of the decompiled output as pubkeys, and their number as n
PubkeysOfOutput(payment, output) ==
  /\ decompile(output).has
  /\ payment.pubkeys = Ret(Present(EvenIndexed(decompile(output).v)))
  /\ payment.n = Ret(Present(Len(EvenIndexed(decompile(output).v))))

\* C16: for n valid public keys the output of p2ns({pubkeys}) decompiles to
\* exactly 2n elements, element 2i being pubkeys[i] and element 2i+1 being
\* OP_CHECKSIGVERIFY for i < n-1 and OP_CHECKSIG for i = n-1; and every
\* Payment that p2ns returns from an output alone that decompiles has the
\* even-indexed decompiled elements, in order, as pubkeys and their count
\* as n.
C16_OutputLayout ==
  /\ call.fn = "deriveFromOutput" =>
       /\ ~call.first.thrown
       /\ call.first.val.output.has
       /\ decompile(call.first.val.output.v).has
       /\ Len(decompile(call.first.val.output.v).v) = 2 * Len(call.pubkeys)
       /\ \A i \in 0..(Len(call.pubkeys) - 1) :
            /\ decompile(call.first.val.output.v).v[2 * i + 1] = call.pubkeys[i + 1]
            /\ decompile(call.first.val.output.v).v[2 * i + 2] =
                 IF i < Len(call.pubkeys) - 1 THEN Op(OP_CHECKSIGVERIFY)
                 ELSE Op(OP_CHECKSIG)
       /\ ~ret.thrown => PubkeysOfOutput(ret.val, call.first.val.output.v)
  /\ (call.fn = "p2ns" /\ call.a.output.has /\ ~call.a.pubkeys.has
      /\ decompile(call.a.output.v).has /\ ~ret.thrown) =>
       PubkeysOfOutput(ret.val, call.a.output.v)

\* the output of three keys, not all the same, decompiled to six elements
\* and gave the three keys back
C16_Witness ==
  /\ call.fn = "deriveFromOutput"
  /\ Len(call.pubkeys) = 3
  /\ call.pubkeys[1] # call.pubkeys[2]
  /\ Len(decompile(call.first.val.output.v).v) = 6
  /\ ~ret.thrown
  /\ ret.val.pubkeys = Ret(Present(call.pubkeys))
  /\ ret.val.n = Ret(Present(3))

C18_Original ==
  call.fn = "aggregate" => call.permutedAfter = call.permuted

(***************************************************************************)
(* C19: the Huffman taptree is optimal                                     *)
(***************************************************************************)
\* every weight of a getHuffmanTaptree call is given and positive
AllWeightsPositive ==
  \A i \in 1..Len(call.weights) :
    call.weights[i] # <<>> /\ call.weights[i][1] > 0

\* the sum of the weights of a set of leaves
RECURSIVE WeightOf(_)
WeightOf(leaves) ==
  IF leaves = {} THEN 0
  ELSE LET i == CHOOSE j \in leaves : TRUE
       IN  call.weights[i][1] + WeightOf(leaves \ {i})

\* the least weighted sum of depths over all binary trees with these
\* leaves: a single leaf is the root; otherwise the root splits the leaves
\* in two non-empty parts, and every leaf lies one level below the root
\* of its part
RECURSIVE LeastCost(_)
LeastCost(leaves) ==
  IF Cardinality(leaves) <= 1 THEN 0
  ELSE LET costs == {LeastCost(part) + LeastCost(leaves \ part) :
                       part \in (SUBSET leaves) \ {{}, leaves}}
       IN  WeightOf(leaves) + (CHOOSE c \in costs : \A d \in costs : c <= d)

\* the weighted sum of the lengths of the paths of the returned tree
RECURSIVE CostOfPaths(_)
CostOfPaths(count) ==
  IF count = 0 THEN 0
  ELSE call.weights[count][1] * Len(ret.val.paths[count]) + CostOfPaths(count - 1)

\* C19: for every list of scripts with positive weights, the sum over the
\* leaves of weight[i] * length(paths[i]) of the tree that
\* getHuffmanTaptree returns is the minimum of that sum over all binary
\* trees with those leaves.
C19_Optimal ==
  (call.fn = "getHuffmanTaptree" /\ Len(call.scripts) > 0 /\ AllWeightsPositive) =>
    /\ ~ret.thrown
    /\ CostOfPaths(Len(call.scripts)) = LeastCost(1..Len(call.scripts))

\* three scripts of which the first is the heaviest: it got the shortest
\* path and the tree has the least cost
C19_Witness ==
  /\ call.fn = "getHuffmanTaptree"
  /\ Len(call.scripts) = 3
  /\ call.weights = <<<<MaxWeight>>, <<1>>, <<1>>>>
  /\ ~ret.thrown
  /\ Len(ret.val.paths[1]) = 1
  /\ Len(ret.val.paths[2]) = 2
  /\ CostOfPaths(3) = MaxWeight + 4

(***************************************************************************)
(* C20: the nonce is reduced modulo the group order                        *)
(***************************************************************************)
\* the public point, the private scalar negated for an odd y, and the
\* nonce seed t of a signing call
SignerPoint == PointMul(G, fromBuffer(call.d))

SignerScalar ==
  IF hasEvenY(SignerPoint) THEN fromBuffer(call.d) ELSE n - fromBuffer(call.d)

SignerSeed ==
  IF call.aux # Undefined
  THEN Xor(SignerScalar, fromBuffer(taggedHash(TagAux, call.aux)))
  ELSE SignerScalar

\* the tagged nonce hash as a number, before any reduction
NonceHash ==
  fromBuffer(taggedHash(TagNonce,
    Concat(<<toBuffer(SignerSeed), encodeXOnlyPoint(SignerPoint), call.hash>>)))

\* C20: signing fails when the tagged nonce hash is 0 modulo GROUP_ORDER,
\* and otherwise has the outcome of signing with the scalar k0 = hash mod
\* GROUP_ORDER, also for a hash value >= GROUP_ORDER: the s half returned
\* is (k + e*d) mod GROUP_ORDER, in [0, GROUP_ORDER).
C20_Original ==
  call.fn = "signVerify" =>
    /\ NonceHash % n = 0 => call.sig.thrown
    /\ NonceHash % n # 0 =>
         call.sig = selfVerify(call.hash, call.d,
                      signWithNonce(call.hash, SignerScalar, SignerPoint,
                                    NonceHash % n))

(***************************************************************************)
(* C21: the nonce seed with and without auxiliary randomness               *)
(***************************************************************************)
\* C21: signing without auxiliary randomness has the outcome of signing
\* with the nonce seed t = d (the sign-normalised private scalar), with no
\* aux tagged hash XORed in; signing with auxiliary randomness has the
\* outcome of signing with t = d XOR taggedHash('BIP0340/aux', aux).
C21_Original ==
  /\ call.fn = "signWithoutAux" =>
       ret = selfVerify(call.hash, call.d,
               signWithSeed(call.hash, SignerScalar, SignerPoint, SignerScalar))
  /\ (call.fn = "signVerify" /\ call.aux # Undefined) =>
       call.sig = selfVerify(call.hash, call.d,
                    signWithSeed(call.hash, SignerScalar, SignerPoint,
                      Xor(SignerScalar, fromBuffer(taggedHash(TagAux, call.aux)))))

(***************************************************************************)
(* C22: lazy properties of a Payment are computed once                     *)
(***************************************************************************)
\* C22: over every sequence of reads of the properties of one Payment, the
\* reads of the validation included, the output script is decompiled at
\* most once, the value of every property is computed at most once, and a
\* read of a property whose first read returned a value returns that value.
C22_ComputedOnce ==
  call.fn = "read" =>
    /\ call.o.decompiles <= 1
    /\ \A f \in DOMAIN call.o.runs : call.o.runs[f] <= 1
    /\ ~call.o.firsts[call.name][1].thrown =>
         ret = call.o.firsts[call.name][1]

\* C22 witness: the pubkeys of a Payment made from an output are read a
\* second time, after the one decompilation of the output
C22_Witness ==
  /\ call.fn = "read"
  /\ call.again
  /\ call.name = "pubkeys"
  /\ call.o.decompiles = 1
  /\ call.o.runs["pubkeys"] = 1
  /\ ~ret.thrown

(***************************************************************************)
(* C23: the key that keeps the coefficient 1                               *)
(***************************************************************************)
\* the 1-based position of the second unique key of a sorted list: the first
\* key that differs from the first one, 0 when every key is the same
SecondUnique(sorted) ==
  IF \A i \in 1..Len(sorted) : sorted[i] = sorted[1] THEN 0
  ELSE CHOOSE i \in 1..Len(sorted) :
         /\ sorted[i] # sorted[1]
         /\ \A j \in 1..(i - 1) : sorted[j] = sorted[1]

\* the point a key contributes when the second unique key keeps the
\* coefficient 1 and every other key is scaled by its KeyAgg coefficient
TweakedAsClaimed(L, sorted, i) ==
  IF i = SecondUnique(sorted)
  THEN Ret(Concat(<<EVEN_Y_COORD_PREFIX, sorted[i]>>))
  ELSE pointMultiply(Concat(<<EVEN_Y_COORD_PREFIX, sorted[i]>>),
         taggedHash(TagKeyAggCoefficient, Concat(<<L, sorted[i]>>)))

\* the sum of the first i contributions
RECURSIVE SumAsClaimed(_, _, _)
SumAsClaimed(L, sorted, i) ==
  IF i = 1 THEN TweakedAsClaimed(L, sorted, 1)
  ELSE addTweaked(SumAsClaimed(L, sorted, i - 1), TweakedAsClaimed(L, sorted, i))

\* the aggregate of a list of keys as the claim describes it
AggregateAsClaimed(sorted) ==
  xOnlyOfAggregate(
    SumAsClaimed(taggedHash(TagKeyAggList, Concat(sorted)), sorted, Len(sorted)))

\* C23 (as claimed): aggregateMuSigPubkeys returns the sum of the keys in
\* which the second unique key in sorted order has the coefficient 1 and
\* every other key is scaled by taggedHash('KeyAgg coefficient', L || key);
\* for a sorted list [A, A, B] the unscaled key is B.
C23_Original ==
  (call.fn = "aggregate" /\ Len(call.pubkeys) > 1 /\ ~ret.thrown
     /\ ~AggregateAsClaimed(call.pubkeys).thrown) =>
    ret = AggregateAsClaimed(call.pubkeys)

(***************************************************************************)
(* C24: the paths of a Huffman taptree lead to its root                    *)
(***************************************************************************)
\* hashTapBranch folded over the hashes of a path from position j on,
\* starting from the hash h
RECURSIVE FoldPath(_, _, _)
FoldPath(h, path, j) ==
  IF j > Len(path) THEN h
  ELSE FoldPath(hashTapBranch(h, path[j]), path, j + 1)

\* the sum of 2^(count - Len(path)) over the paths from position i on; the
\* leaves of a binary tree at the depths Len(path) make it 2^count
RECURSIVE DepthSum(_, _, _)
DepthSum(paths, i, count) ==
  IF i > Len(paths) THEN 0
  ELSE Pow2(count - Len(paths[i])) + DepthSum(paths, i + 1, count)

\* C24: for every leaf index i of a tree that getHuffmanTaptree returns,
\* paths[i] is defined, hashTapBranch folded over paths[i] in order from
\* hashTapLeaf(scripts[i]) gives the returned root, the lengths of the paths
\* are the depths of the leaves of one binary tree, and for a single script
\* the root is its leaf hash and its path is empty.
C24_PathsLeadToRoot ==
  (call.fn \in {"getHuffmanTaptree", "spendLeaves"} /\ ~ret.thrown) =>
    /\ Len(ret.val.paths) = Len(call.scripts)
    /\ \A i \in 1..Len(call.scripts) :
         /\ ret.val.paths[i] # <<Undefined>>
         /\ Len(ret.val.paths[i]) < Len(call.scripts)
         /\ FoldPath(hashTapLeaf(call.scripts[i]), ret.val.paths[i], 1)
              = ret.val.root
    /\ DepthSum(ret.val.paths, 1, Len(call.scripts)) = Pow2(Len(call.scripts))
    /\ Len(call.scripts) = 1 =>
         /\ ret.val.root = hashTapLeaf(call.scripts[1])
         /\ ret.val.paths[1] = <<>>

\* C24 witness: a tree of three different scripts with a leaf at depth 1 and
\* a leaf at depth 2
C24_Witness ==
  /\ call.fn = "spendLeaves"
  /\ ~ret.thrown
  /\ Len(call.scripts) = 3
  /\ call.scripts[1] # call.scripts[2]
  /\ \E i, j \in 1..3 : Len(ret.val.paths[i]) = 1 /\ Len(ret.val.paths[j]) = 2

(***************************************************************************)
(* C25: what the merge loop keeps                                          *)
(***************************************************************************)
\* the path that the queue holds for a script index
PathOf(queue, index) ==
  queue[CHOOSE e \in 1..Len(queue) : index \in DOMAIN queue[e].paths].paths[index]

\* the sum of the weights of the entries from position i on
RECURSIVE WeightSum(_, _)
WeightSum(queue, i) ==
  IF i > Len(queue) THEN 0 ELSE queue[i].weight + WeightSum(queue, i + 1)

\* the sum of weights[index] || 1 over the scripts from a 0-based index on
RECURSIVE LeafWeightSum(_, _, _)
LeafWeightSum(weights, index, count) ==
  IF index >= count THEN 0
  ELSE effectiveWeight(weights, index) + LeafWeightSum(weights, index + 1, count)

\* C25: in every state of the merge loop the sets of script indices that the
\* queue entries carry are pairwise disjoint and their union is {0..n-1},
\* and the weights of the entries add up to the weights of the leaves; a
\* merge appends one sibling hash, the hash of the other merged entry, to
\* every path of the two merged entries and changes no other path.
C25_LoopInvariant ==
  call.fn = "mergeLoop" =>
    /\ \A i, j \in 1..Len(call.queues[call.merges + 1]) :
         i # j => DOMAIN call.queues[call.merges + 1][i].paths
                    \cap DOMAIN call.queues[call.merges + 1][j].paths = {}
    /\ UNION {DOMAIN call.queues[call.merges + 1][i].paths :
                i \in 1..Len(call.queues[call.merges + 1])}
         = 0..(Len(call.scripts) - 1)
    /\ WeightSum(call.queues[call.merges + 1], 1)
         = LeafWeightSum(call.weights, 0, Len(call.scripts))
    /\ call.merges > 0 =>
         \E c, d \in 1..Len(call.queues[call.merges]) :
           /\ c # d
           /\ \A index \in 0..(Len(call.scripts) - 1) :
                PathOf(call.queues[call.merges + 1], index) =
                  IF index \in DOMAIN call.queues[call.merges][c].paths
                  THEN Append(PathOf(call.queues[call.merges], index),
                              call.queues[call.merges][d].taggedHash)
                  ELSE IF index \in DOMAIN call.queues[call.merges][d].paths
                  THEN Append(PathOf(call.queues[call.merges], index),
                              call.queues[call.merges][c].taggedHash)
                  ELSE PathOf(call.queues[call.merges], index)

\* C25 witness: after the first merge of three different scripts the queue
\* holds an entry that carries two indices and an untouched leaf
C25_Witness ==
  /\ call.fn = "mergeLoop"
  /\ Len(call.scripts) = 3
  /\ call.scripts[1] # call.scripts[2]
  /\ call.merges = 1
  /\ Len(call.queues[2]) = 2
  /\ \E i \in 0..2 : PathOf(call.queues[2], i) = <<>>

(***************************************************************************)
(* C26: the merge loop ends after n - 1 merges                             *)
(***************************************************************************)
\* C26: for 1..MaxScripts scripts with positive weights, the queue holds
\* n - merges entries in every state of the loop, the loop is left after
\* exactly n - 1 merges with exactly one entry in the queue, the hash of
\* that entry is the root returned, which is the result of
\* getHuffmanTaptree, and every loop that starts is left.
C26_Terminates ==
  /\ [](call.fn = "mergeLoop" =>
          /\ Len(call.queues[call.merges + 1]) = Len(call.scripts) - call.merges
          /\ call.returned =>
               /\ call.merges = Len(call.scripts) - 1
               /\ Len(call.queues[call.merges + 1]) = 1
               /\ ret.val.root = call.queues[call.merges + 1][1].taggedHash
               /\ ret = getHuffmanTaptree(call.scripts, call.weights))
  /\ (call.fn = "mergeLoop") ~> (call.fn = "mergeLoop" /\ call.returned)

\* C26 witness: the loop over three scripts was left after two merges
C26_Witness ==
  /\ call.fn = "mergeLoop"
  /\ call.returned
  /\ Len(call.scripts) = 3
  /\ call.merges = 2

====
